---- MODULE Spec2Model ----
(***************************************************************************)
(* Reliability analysis of a component network between a source and a     *)
(* sink: the network model (SystemGraph), the two minimal-cut-set engines *)
(* (MOCUSAnalyzer, BDDAnalyzer), the comparison harness and the           *)
(* inclusion-exclusion probability engine.                                *)
(***************************************************************************)
EXTENDS Integers, Sequences, FiniteSets, TLC

VARIABLES components, component_ids, nodes, edges, op, ret, script, pc,
          bdd_analyzer

vars ==
    <<components, component_ids, nodes, edges, op, ret, script, pc,
      bdd_analyzer>>

(***************************************************************************)
(* Bounds of the model.                                                    *)
(***************************************************************************)
\* most edges a network of the general specification may hold
MaxEdges == 5
\* largest n of the series / parallel networks
MaxN == 4
\* most cut sets in a list given to the probability engine
MaxCutSets == 3
\* components of the networks built for the importance measures and the
\* simulation
MaxSeries == 2
\* time points of a simulation
MaxTimePoints == 2
\* samples drawn for a component in a simulation
MaxSamples == 4
\* most cut sets in a list a caller gives to the importance measures
MaxGiven == 2
\* most calls in a sequence of calls that may be rejected
MaxCalls == 4

(***************************************************************************)
(* Identifiers.                                                            *)
(***************************************************************************)
source == "source"
sink == "sink"

\* component ids the general specification adds
CompIds == {"A", "B", "C"}

\* the order in which the general specification takes them for new components
CompIdSeq == <<"A", "B", "C">>

\* ids of the series / parallel networks: C1, C2, ...
CName == <<"C1", "C2", "C3", "C4", "C5", "C6", "C7", "C8">>

\* ids drawn for components that come without one
UuidName == <<"uuid-1", "uuid-2", "uuid-3", "uuid-4", "uuid-5", "uuid-6">>

(***************************************************************************)
(* Sequence helpers.                                                       *)
(***************************************************************************)
Range(s) == {s[i] : i \in DOMAIN s}

\* a loop over s[lo..hi] that carries acc: acc = f(acc, s[i]) for i = lo..hi
\* (the range is halved and the first half is evaluated before the second
\* starts, which keeps the evaluation shallow)
RECURSIVE FoldRange(_, _, _, _, _)
FoldRange(f(_, _), acc, s, lo, hi) ==
    IF lo > hi THEN acc
    ELSE IF lo = hi THEN f(acc, s[lo])
    ELSE LET mid == (lo + hi) \div 2
             left == FoldRange(f, acc, s, lo, mid)
         IN  IF left = left THEN FoldRange(f, left, s, mid + 1, hi) ELSE acc

FoldLeft(f(_, _), acc, s) == FoldRange(f, acc, s, 1, Len(s))

Flatten(ss) == FoldLeft(LAMBDA acc, x : acc \o x, <<>>, ss)

\* [f(s[1]), ..., f(s[n])]
Map(f(_), s) == [i \in DOMAIN s |-> f(s[i])]

\* list.sort(key=len): stable, ascending in the number of members
RECURSIVE SortFrom(_, _, _)
SortFrom(s, k, top) ==
    IF k > top THEN <<>>
    ELSE SelectSeq(s, LAMBDA x : Cardinality(x) = k) \o SortFrom(s, k + 1, top)

MaxCard(s) == IF s = <<>> THEN 0
              ELSE CHOOSE m \in {Cardinality(s[i]) : i \in DOMAIN s} :
                       \A i \in DOMAIN s : Cardinality(s[i]) <= m

SortByLen(s) == SortFrom(s, 0, MaxCard(s))

\* the permutations of a set: the lists that hold each member once
RECURSIVE Perms(_)
Perms(S) ==
    IF S = {} THEN { <<>> }
    ELSE UNION {{<<x>> \o q : q \in Perms(S \ {x})} : x \in S}

\* a set as a list, in some fixed order
RECURSIVE SetToSeq(_)
SetToSeq(S) == IF S = {} THEN <<>>
               ELSE LET x == CHOOSE y \in S : TRUE
                    IN  <<x>> \o SetToSeq(S \ {x})

(***************************************************************************)
(* Python floats.  A float is an IEEE-754 double: sign, integer mantissa   *)
(* and binary exponent, value = (-1)^s * m * 2^e, kept with an odd         *)
(* mantissa (zero: no mantissa) so that equal values are equal records.    *)
(* A mantissa is a natural number written in base 2^14, lowest limb first, *)
(* without leading zero limbs.  Every operation computes the exact result  *)
(* and rounds it to 53 bits, to nearest, ties to even.  Exponent range     *)
(* (overflow, subnormals) and the sign of zero are not modelled.           *)
(***************************************************************************)
LimbBits == 14
LimbBase == 2 ^ LimbBits
\* bits of a double's significand
MantBits == 53

\* drop the leading zero limbs
RECURSIVE Trim(_)
Trim(a) == IF a # <<>> /\ a[Len(a)] = 0 THEN Trim(SubSeq(a, 1, Len(a) - 1))
           ELSE a

\* limbs of any size -> limbs below the base
RECURSIVE Carry(_, _)
Carry(a, c) ==
    IF a = <<>> THEN (IF c = 0 THEN <<>> ELSE <<c % LimbBase>> \o Carry(<<>>, c \div LimbBase))
    ELSE LET t == Head(a) + c
         IN  <<t % LimbBase>> \o Carry(Tail(a), t \div LimbBase)

Limb(a, i) == IF i \in DOMAIN a THEN a[i] ELSE 0

NatAdd(a, b) ==
    LET n == IF Len(a) > Len(b) THEN Len(a) ELSE Len(b)
    IN  Trim(Carry([i \in 1..n |-> Limb(a, i) + Limb(b, i)], 0))

\* a - b for a >= b
RECURSIVE Borrow(_, _, _)
Borrow(a, b, c) ==
    IF a = <<>> THEN <<>>
    ELSE LET t == Head(a) - (IF b = <<>> THEN 0 ELSE Head(b)) - c
             rest == IF b = <<>> THEN <<>> ELSE Tail(b)
         IN  IF t < 0 THEN <<t + LimbBase>> \o Borrow(Tail(a), rest, 1)
             ELSE <<t>> \o Borrow(Tail(a), rest, 0)

NatSub(a, b) == Trim(Borrow(a, b, 0))

\* a < b, a = b, a > b: -1, 0, 1
RECURSIVE CmpFrom(_, _, _)
CmpFrom(a, b, i) ==
    IF i = 0 THEN 0
    ELSE IF a[i] < b[i] THEN -1
    ELSE IF a[i] > b[i] THEN 1
    ELSE CmpFrom(a, b, i - 1)

NatCmp(a, b) ==
    IF Len(a) < Len(b) THEN -1
    ELSE IF Len(a) > Len(b) THEN 1
    ELSE CmpFrom(a, b, Len(a))

\* sum of a sequence of small numbers
RECURSIVE SumSeq(_)
SumSeq(xs) == IF xs = <<>> THEN 0 ELSE Head(xs) + SumSeq(Tail(xs))

NatMul(a, b) ==
    IF a = <<>> \/ b = <<>> THEN <<>>
    ELSE LET coef(k) ==
                 SumSeq([i \in 1..Len(a) |->
                            IF k + 1 - i \in DOMAIN b THEN a[i] * b[k + 1 - i]
                            ELSE 0])
         IN  Trim(Carry([k \in 1..(Len(a) + Len(b) - 1) |-> coef(k)], 0))

\* a * 2^k
NatShl(a, k) ==
    IF a = <<>> THEN <<>>
    ELSE LET r == 2 ^ (k % LimbBits)
         IN  [i \in 1..(k \div LimbBits) |-> 0]
             \o Trim(Carry([i \in DOMAIN a |-> a[i] * r], 0))

\* a div 2^k
NatShr(a, k) ==
    LET d == k \div LimbBits
        r == 2 ^ (k % LimbBits)
        up == LimbBase \div r
    IN  IF d >= Len(a) THEN <<>>
        ELSE Trim([i \in 1..(Len(a) - d) |->
                      (a[i + d] \div r) + (Limb(a, i + d + 1) % r) * up])

\* a mod 2^k = 0
NatLowZero(a, k) ==
    /\ \A i \in 1..(k \div LimbBits) : Limb(a, i) = 0
    /\ Limb(a, (k \div LimbBits) + 1) % (2 ^ (k % LimbBits)) = 0

NatOdd(a) == a # <<>> /\ a[1] % 2 = 1

\* number of bits of a limb
RECURSIVE IntBits(_)
IntBits(x) == IF x = 0 THEN 0 ELSE 1 + IntBits(x \div 2)

NatBits(a) == IF a = <<>> THEN 0
              ELSE LimbBits * (Len(a) - 1) + IntBits(a[Len(a)])

\* number of zero bits at the low end of a non-zero number
RECURSIVE IntTrailingZeros(_)
IntTrailingZeros(x) == IF x % 2 = 1 THEN 0 ELSE 1 + IntTrailingZeros(x \div 2)

RECURSIVE NatTrailingZeros(_)
NatTrailingZeros(a) ==
    IF Head(a) = 0 THEN LimbBits + NatTrailingZeros(Tail(a))
    ELSE IntTrailingZeros(Head(a))

FZero == [s |-> 0, m |-> <<>>, e |-> 0]

\* m * 2^e, the z zero bits at the low end of m moved into the exponent
FShiftOut(s, m, e, z) == [s |-> s, m |-> NatShr(m, z), e |-> e + z]

FNormalize(s, m, e) == FShiftOut(s, m, e, NatTrailingZeros(m))

\* q = m div 2^drop is rounded up: the first bit dropped is set, and a later
\* one is, or q is odd
RoundsUp(m, drop, q) ==
    /\ ~NatLowZero(NatShr(m, drop - 1), 1)
    /\ (~NatLowZero(m, drop - 1) \/ NatOdd(q))

FRoundQuotient(s, m, e, drop, q) ==
    FNormalize(s, IF RoundsUp(m, drop, q) THEN NatAdd(q, <<1>>) ELSE q, e)

\* m * 2^e without its drop lowest bits, to nearest, ties to even
FRoundDrop(s, m, e, drop) ==
    IF drop <= 0 THEN FNormalize(s, m, e)
    ELSE FRoundQuotient(s, m, e + drop, drop, NatShr(m, drop))

\* the float of sign s nearest to m * 2^e
FRound(s, m, e) ==
    IF m = <<>> THEN FZero
    ELSE FRoundDrop(s, m, e, NatBits(m) - MantBits)

FNeg(x) == IF x.m = <<>> THEN x ELSE [x EXCEPT !.s = 1 - x.s]

\* x * y
FMul(x, y) == FRound((x.s + y.s) % 2, NatMul(x.m, y.m), x.e + y.e)

\* a * 2^e of sign xs plus b * 2^e of sign ys
FAddAligned(xs, a, ys, b, e) ==
    FRound(IF xs = ys \/ NatCmp(a, b) >= 0 THEN xs ELSE ys,
           IF xs = ys THEN NatAdd(a, b)
           ELSE IF NatCmp(a, b) >= 0 THEN NatSub(a, b)
           ELSE NatSub(b, a),
           e)

\* x + y, both mantissas shifted to the exponent e
FAddAt(x, y, e) ==
    FAddAligned(x.s, NatShl(x.m, x.e - e), y.s, NatShl(y.m, y.e - e), e)

\* x + y
FAdd(x, y) ==
    IF x.m = <<>> THEN y
    ELSE IF y.m = <<>> THEN x
    ELSE FAddAt(x, y, IF x.e < y.e THEN x.e ELSE y.e)

\* x - y
FSub(x, y) == FAdd(x, FNeg(y))

\* d >= 0
FNonNegative(d) == d.m = <<>> \/ d.s = 0

\* x <= y
FLeq(x, y) == FNonNegative(FSub(y, x))

\* float(n) of a small integer
FInt(n) == FRound(IF n < 0 THEN 1 ELSE 0,
                  Trim(Carry(<<IF n < 0 THEN 0 - n ELSE n>>, 0)), 0)

\* |x|
FAbs(x) == [x EXCEPT !.s = 0]

\* x < y
FLt(x, y) == ~FLeq(y, x)

\* the largest q below 2^(bit+1) above q0 with q * d <= n, bit by bit
RECURSIVE DivBits(_, _, _, _)
DivBits(n, d, q, bit) ==
    IF bit < 0 THEN q
    ELSE LET cand == NatAdd(q, NatShl(<<1>>, bit))
         IN  IF NatCmp(NatMul(cand, d), n) <= 0
             THEN DivBits(n, d, cand, bit - 1)
             ELSE DivBits(n, d, q, bit - 1)

\* n div d for d > 0
NatDiv(n, d) ==
    IF NatCmp(n, d) < 0 THEN <<>>
    ELSE DivBits(n, d, <<>>, NatBits(n) - NatBits(d))

\* x / y for y # 0: the quotient of the mantissas to 56 bits or more, a last
\* bit set when the division left a remainder, rounded
FDivSticky(s, n, d, q, e) ==
    FRound(s, NatAdd(NatShl(q, 1), IF NatMul(q, d) = n THEN <<>> ELSE <<1>>), e)

FDivQuotient(s, n, d, e) == FDivSticky(s, n, d, NatDiv(n, d), e)

FDivShift(x, y, k) ==
    FDivQuotient((x.s + y.s) % 2, NatShl(x.m, k), y.m, x.e - y.e - k - 1)

FDiv(x, y) ==
    IF x.m = <<>> THEN FZero
    ELSE FDivShift(x, y, MantBits + 3 + NatBits(y.m) - NatBits(x.m))

\* the largest r with r * r <= n, bit by bit
RECURSIVE SqrtBits(_, _, _)
SqrtBits(n, r, bit) ==
    IF bit < 0 THEN r
    ELSE LET cand == NatAdd(r, NatShl(<<1>>, bit))
         IN  IF NatCmp(NatMul(cand, cand), n) <= 0
             THEN SqrtBits(n, cand, bit - 1)
             ELSE SqrtBits(n, r, bit - 1)

NatSqrt(n) == SqrtBits(n, <<>>, NatBits(n) \div 2)

\* sqrt(x) for x >= 0: the root of the mantissa, shifted to 112 bits or more
\* on an even exponent, a last bit set when the root is not exact, rounded
FSqrtSticky(n, r, e) ==
    FRound(0, NatAdd(NatShl(r, 1), IF NatMul(r, r) = n THEN <<>> ELSE <<1>>), e)

FSqrtRoot(n, e) == FSqrtSticky(n, NatSqrt(n), e)

FSqrtShift(x, k) == FSqrtRoot(NatShl(x.m, k), ((x.e - k) \div 2) - 1)

FSqrtEven(x, k0) == FSqrtShift(x, IF (x.e - k0) % 2 = 0 THEN k0 ELSE k0 + 1)

FSqrt(x) ==
    IF x.m = <<>> THEN FZero
    ELSE FSqrtEven(x, 2 * MantBits + 6 - NatBits(x.m))

\* the literals 0.0, 1.0, 0.5
F00 == FZero
F10 == FInt(1)
F05 == [s |-> 0, m |-> <<1>>, e |-> -1]
\* 0.1 = 3602879701896397 * 2^-55
F01 == [s |-> 0, m |-> <<3277, 13107, 3276, 819>>, e |-> -55]
\* 0.2 = 3602879701896397 * 2^-54
F02 == [s |-> 0, m |-> <<3277, 13107, 3276, 819>>, e |-> -54]
\* 0.28 = 1261007895663739 * 2^-52
F028 == [s |-> 0, m |-> <<5243, 7864, 11796, 286>>, e |-> -52]

\* 1e-10 = 7737125245533627 * 2^-86
F1em10 == [s |-> 0, m |-> <<15803, 10078, 3581, 1759>>, e |-> -86]
\* 1.96 = 2206763817411543 * 2^-50
F196 == [s |-> 0, m |-> <<9175, 13762, 12451, 501>>, e |-> -50]
\* 0.01 = 5764607523034235 * 2^-59
F001 == [s |-> 0, m |-> <<5243, 7864, 11796, 1310>>, e |-> -59]

\* failure_rate of a component's distribution: zero or positive
Rates == {F00, F10}

(***************************************************************************)
(* SystemGraph                                                             *)
(***************************************************************************)
\* The graph is its adjacency: for every node, the nodes its connections
\* lead to, in the order the connections were added.
\* the graph of a new SystemGraph: the two terminals, no connection
NewGraph == [n \in {source, sink} |-> <<>>]

\* graph.add_node(n): a node the graph has keeps its connections
graph_add_node(E, n) ==
    IF n \in DOMAIN E THEN E
    ELSE [m \in DOMAIN E \cup {n} |-> IF m = n THEN <<>> ELSE E[m]]

\* graph.add_edge(u, v) between nodes of the graph: a connection the graph
\* has keeps its place
graph_add_edge(E, u, v) ==
    IF v \in Range(E[u]) THEN E ELSE [E EXCEPT ![u] = Append(@, v)]

\* the connections as a set of pairs
EdgeSet(E) == UNION {{<<u, E[u][i]>> : i \in DOMAIN E[u]} : u \in DOMAIN E}

\* v in graph.successors(u)
has_edge(E, u, v) == u \in DOMAIN E /\ v \in Range(E[u])

\* graph.successors(u), in iteration order
successors(E, u) == E[u]

\* nx.all_simple_paths: depth-first, a child equal to the target closes a
\* path, a child already on the path is skipped
RECURSIVE SimplePathsFrom(_, _)
SimplePathsFrom(E, visited) ==
    LET children == successors(E, visited[Len(visited)])
        visit(c) == IF c = sink THEN << Append(visited, c) >>
                    ELSE IF c \in Range(visited) THEN <<>>
                    ELSE SimplePathsFrom(E, Append(visited, c))
    IN  Flatten(Map(visit, children))

get_all_paths(E) == SimplePathsFrom(E, <<source>>)

(***************************************************************************)
(* MOCUSAnalyzer                                                           *)
(***************************************************************************)
\* one round of the cross product: every current cut set joined with every
\* component of the path
\* (variant: only the first component of the path is joined)
CrossProductFirstComponent(cut_sets, path) ==
    Map(LAMBDA cs : cs \cup {path[1]}, cut_sets)

CrossProduct(cut_sets, path) ==
    Flatten(Map(LAMBDA cs : Map(LAMBDA comp : cs \cup {comp}, path), cut_sets))

\* (variant: the paths after the first are not processed)
ExpandNothing(cut_sets, paths) == cut_sets

Expand(cut_sets, paths) == FoldLeft(CrossProduct, cut_sets, paths)

\* the loop of _remove_non_minimal over the sorted candidates: a candidate is
\* added to the set minimal_cs unless a set already in it is a subset of the
\* candidate
\* (variant: every candidate is added)
KeepAlways(minimal_cs, cs) == minimal_cs \cup {cs}

KeepUnlessCovered(minimal_cs, cs) ==
    IF \E minimal \in minimal_cs : minimal \subseteq cs
    THEN minimal_cs
    ELSE minimal_cs \cup {cs}

\* (variant: the kept candidates are a list, in the sorted order, and a
\* candidate is dropped only for a kept proper subset)
KeepInListUnlessProperlyCovered(minimal_cs, cs) ==
    IF \E i \in DOMAIN minimal_cs : minimal_cs[i] \subseteq cs /\ minimal_cs[i] # cs
    THEN minimal_cs
    ELSE Append(minimal_cs, cs)

_remove_non_minimal_list(cut_sets) ==
    { FoldLeft(KeepInListUnlessProperlyCovered, <<>>, SortByLen(cut_sets)) }

\* the lists _remove_non_minimal can return: minimal_cs is a set of
\* frozensets and the list is made by iterating it, so its members come in
\* the order of their hashes, which differs from one process to the next
_remove_non_minimal(cut_sets) ==
    Perms(FoldLeft(KeepUnlessCovered, {}, SortByLen(cut_sets)))

\* components whose distribution has failure_rate == 0
perfectly_reliable_comps(comps) == {c \in DOMAIN comps : comps[c] = F00}

\* the paths without the terminals and the perfectly reliable components,
\* the empty ones dropped
\* (variant: the terminals stay on the paths)
component_paths_with_terminals(comps, paths) ==
    LET keep(node) == node \notin perfectly_reliable_comps(comps)
    IN  SelectSeq(Map(LAMBDA p : SelectSeq(p, keep), paths),
                  LAMBDA p : p # <<>>)

component_paths(comps, paths) ==
    LET keep(node) == /\ node # source
                      /\ node # sink
                      /\ node \notin perfectly_reliable_comps(comps)
    IN  SelectSeq(Map(LAMBDA p : SelectSeq(p, keep), paths),
                  LAMBDA p : p # <<>>)

\* find_minimal_cut_sets: the lists the call can return
\* (variant: the direct source-sink connection is not looked for)
MocusFindNoDirectCheck(comps, E) ==
    LET paths == SelectSeq(get_all_paths(E), LAMBDA p : Len(p) > 2)
    IN  IF paths = <<>> THEN { <<>> }
        ELSE LET cps == component_paths(comps, paths)
             IN  IF cps = <<>> THEN { <<>> }
                 ELSE _remove_non_minimal(
                          Expand(Map(LAMBDA comp : {comp}, Head(cps)),
                                 Tail(cps)))

MocusFind(comps, E) ==
    IF has_edge(E, source, sink) THEN { <<>> }
    ELSE LET paths == SelectSeq(get_all_paths(E), LAMBDA p : Len(p) > 2)
         IN  IF paths = <<>> THEN { <<>> }
             ELSE LET cps == component_paths(comps, paths)
                  IN  IF cps = <<>> THEN { <<>> }
                      ELSE _remove_non_minimal(
                               Expand(Map(LAMBDA comp : {comp}, Head(cps)),
                                      Tail(cps)))

\* the cut sets of the list, which every list the call can return holds
MocusCutSets(comps, E) == UNION {Range(list) : list \in MocusFind(comps, E)}

(***************************************************************************)
(* BDDAnalyzer.  `declared` lists the variables of the manager in the      *)
(* order they were declared, which is the order of their levels (the       *)
(* reordering of _optimize_variable_ordering ends in an exception that is  *)
(* swallowed).  A function of the manager is the Boolean function it       *)
(* denotes (a reduced ordered diagram is canonical): the set of            *)
(* assignments that satisfy it, an assignment being the set of variables   *)
(* bound to 1 (component works).                                           *)
(***************************************************************************)
bdd_true(declared) == SUBSET Range(declared)
bdd_false == {}
bdd_var(declared, v) == {a \in SUBSET Range(declared) : v \in a}
bdd_and(f, g) == f \cap g
bdd_or(f, g) == f \cup g
\* (variant: the function is returned as it is)
bdd_not_identity(declared, f) == f

bdd_not(declared, f) == (SUBSET Range(declared)) \ f

\* the variables the function depends on
support(declared, f) ==
    {v \in Range(declared) : \E a \in SUBSET Range(declared) :
                                 (a \in f) # ((a \cup {v}) \in f)}

\* the two successors of a node: the function with v bound to 0 and to 1,
\* over the variables of the levels below
low(f, v) == {a \in f : v \notin a}
high(f, v) == {a \ {v} : a \in {b \in f : v \in b}}

\* the cube with one more variable bound
bind(cube, v, val) ==
    [x \in DOMAIN cube \cup {v} |-> IF x = v THEN val ELSE cube[x]]

\* the walk of the diagram from the node of f, whose variables are those of
\* `levels`: a level the function does not depend on has no node; the
\* successor of 0 is walked before the successor of 1; a cube is a path to
\* the terminal true
RECURSIVE _sat_iter(_, _, _)
_sat_iter_node(levels, cube, v, lo, hi) ==
    IF lo = hi THEN _sat_iter(levels, lo, cube)
    ELSE _sat_iter(levels, lo, bind(cube, v, 0))
         \o _sat_iter(levels, hi, bind(cube, v, 1))

_sat_iter(levels, f, cube) ==
    IF f = {} THEN <<>>
    ELSE IF f = SUBSET Range(levels) THEN << cube >>
    ELSE _sat_iter_node(Tail(levels), cube, Head(levels),
                        low(f, Head(levels)), high(f, Head(levels)))

\* bin(i).zfill(n)[k]: the k-th of the n binary digits of i, highest first
binary_digit(i, k, n) == (i \div (2 ^ (n - k))) % 2

\* the assignments of a cube: the variables the cube leaves free, taken in
\* the order of the list `bits`, count from 0...0 to 1...1
_enumerate_minterms(cube, bits) ==
    [i \in 1..(2 ^ Len(bits)) |->
        [x \in DOMAIN cube \cup Range(bits) |->
            IF x \in DOMAIN cube THEN cube[x]
            ELSE binary_digit(i - 1, CHOOSE k \in DOMAIN bits : bits[k] = x,
                              Len(bits))]]

\* the lists so far, each followed by the assignments of the cube; the free
\* variables are listed from a set, in any order
minterms_after(lists, cube, care_vars) ==
    {l \o _enumerate_minterms(cube, bits) :
         l \in lists, bits \in Perms(care_vars \ DOMAIN cube)}

\* pick_iter: the satisfying assignments over the support of the function,
\* each as the map variable -> 0/1, cube after cube: the lists it can yield
pick_iter(declared, f) ==
    FoldLeft(LAMBDA lists, cube :
                 minterms_after(lists, cube, support(declared, f)),
             { <<>> }, _sat_iter(declared, f, <<>>))

AndAll(declared, acc, comps) ==
    FoldLeft(LAMBDA f, comp : bdd_and(f, bdd_var(declared, comp)), acc, comps)

OrAll(acc, fs) == FoldLeft(bdd_or, acc, fs)

_create_structure_function(declared, paths) ==
    LET has_direct_path == \E i \in DOMAIN paths : Len(paths[i]) = 2
        comps_of(p) == SelectSeq(p, LAMBDA n : n # source /\ n # sink)
        kept == SelectSeq(Map(comps_of, SelectSeq(paths, LAMBDA p : Len(p) # 2)),
                          LAMBDA c : c # <<>>)
        path_functions ==
            Map(LAMBDA c : AndAll(declared, bdd_true(declared), c), kept)
    IN  IF has_direct_path THEN bdd_false
        ELSE IF path_functions = <<>> THEN bdd_true(declared)
        ELSE bdd_not(declared, OrAll(bdd_false, path_functions))

\* (variant: every candidate is appended)
MinimizeStepKeepsAll(minimal_cs, cs) == Append(minimal_cs, cs)

\* one round of the loop of _minimize_cut_sets over the sorted candidates; the
\* inner scan of the later candidates leaves is_minimal true whatever it finds
MinimizeStep(minimal_cs, cs) ==
    LET is_minimal == TRUE
    IN  IF \E i \in DOMAIN minimal_cs : minimal_cs[i] \subseteq cs
        THEN minimal_cs
        ELSE IF is_minimal THEN Append(minimal_cs, cs) ELSE minimal_cs

_minimize_cut_sets(cut_sets) ==
    IF cut_sets = <<>> THEN <<>>
    ELSE FoldLeft(MinimizeStep, <<>>, SortByLen(cut_sets))

\* the cut set of a path of the diagram: the variables bound to 0
failed_of(path) == {v \in DOMAIN path : path[v] = 0}

\* _extract_minimal_cut_sets from the list pick_iter gave
cut_sets_of_paths(paths) ==
    IF paths = <<>> THEN <<>>
    ELSE _minimize_cut_sets(Map(failed_of, paths))

\* the lists _extract_minimal_cut_sets can return
_extract_minimal_cut_sets(declared, failure_func) ==
    IF failure_func = bdd_false THEN { <<>> }
    ELSE IF failure_func = bdd_true(declared) THEN { << {} >> }
    ELSE {cut_sets_of_paths(paths) : paths \in pick_iter(declared, failure_func)}

\* BDDAnalyzer(system).find_minimal_cut_sets(): the lists it can return;
\* `declared` is list(system.components)
BddFind(declared, E) ==
    IF has_edge(E, source, sink) THEN { <<>> }
    ELSE IF get_all_paths(E) = <<>> THEN { <<>> }
    ELSE _extract_minimal_cut_sets(
             declared, _create_structure_function(declared, get_all_paths(E)))

\* the cut sets of the list returned
BddCutSets(declared, E) == UNION {Range(list) : list \in BddFind(declared, E)}

\* the components of the paths, in the order _create_structure_function
\* asks the manager for their variables
path_variables(paths) ==
    Flatten(Map(LAMBDA p : SelectSeq(p, LAMBDA n : n # source /\ n # sink),
                SelectSeq(paths, LAMBDA p : Len(p) # 2)))

\* find_minimal_cut_sets of an analyzer whose manager declared the variables
\* `declared` when it was constructed: bdd_manager.var(comp) of a variable
\* that is not declared raises `error`
bdd_find_constructed(declared, E, error) ==
    IF has_edge(E, source, sink) \/ get_all_paths(E) = <<>>
    THEN {[raised |-> "None", cut_sets |-> <<>>]}
    ELSE IF \E i \in DOMAIN path_variables(get_all_paths(E)) :
                path_variables(get_all_paths(E))[i] \notin Range(declared)
    THEN {[raised |-> error, cut_sets |-> <<>>]}
    ELSE {[raised |-> "None", cut_sets |-> cut_sets] :
              cut_sets \in _extract_minimal_cut_sets(
                               declared,
                               _create_structure_function(declared,
                                                          get_all_paths(E)))}

(***************************************************************************)
(* CutSetComparison                                                        *)
(***************************************************************************)
_compare_cut_sets(cs1, cs2) == Range(cs1) = Range(cs2)

\* differences of two readings of time.time(): 0.0 and 0.01 stand for the
\* floats a run can measure
Durations == {F00, F001}

\* the results of the comparison of the two lists
compare(mocus_cut_sets, mocus_time, bdd_cut_sets, bdd_time) ==
    [mocus |-> [time |-> mocus_time, cut_sets |-> mocus_cut_sets,
                count |-> Len(mocus_cut_sets)],
     bdd |-> [time |-> bdd_time, cut_sets |-> bdd_cut_sets,
              count |-> Len(bdd_cut_sets)],
     match |-> _compare_cut_sets(mocus_cut_sets, bdd_cut_sets)]

\* run_comparison: the results the call can return, one for each list the
\* engines can return and each pair of times measured
run_comparison(comps, declared, E) ==
    {compare(mocus_cut_sets, mocus_time, bdd_cut_sets, bdd_time) :
         mocus_cut_sets \in MocusFind(comps, E), mocus_time \in Durations,
         bdd_cut_sets \in BddFind(declared, E), bdd_time \in Durations}

(***************************************************************************)
(* InclusionExclusion                                                      *)
(***************************************************************************)
\* itertools.combinations of k of the indices lo..n, in its order
RECURSIVE combinations(_, _, _)
combinations(lo, n, k) ==
    IF k = 0 THEN << <<>> >>
    ELSE Flatten([j \in 1..(n - k + 2 - lo) |->
                     Map(LAMBDA c : <<lo + j - 1>> \o c,
                         combinations(lo + j, n, k - 1))])

\* the product of one combination of events
combo_prob(events_prob, combo) ==
    FoldLeft(LAMBDA prob, idx : FMul(prob, events_prob[idx]), F10, combo)

\* (variant: every round is added)
term_always_added(events_prob, k) ==
    FoldLeft(LAMBDA acc, combo : FAdd(acc, combo_prob(events_prob, combo)),
             F00, combinations(1, Len(events_prob), k))

\* the round k of calculate_probability
term(events_prob, k) ==
    LET n == Len(events_prob)
        term_sign == IF (k - 1) % 2 = 0 THEN 1 ELSE -1
        term_sum == FoldLeft(LAMBDA acc, combo :
                                 FAdd(acc, combo_prob(events_prob, combo)),
                             F00, combinations(1, n, k))
    IN  FMul(FInt(term_sign), term_sum)

\* (variant: only the first round, the sum of the probabilities, is taken)
calculate_probability_first_round(events_prob) ==
    IF Len(events_prob) = 0 THEN F00 ELSE term(events_prob, 1)

calculate_probability(events_prob) ==
    LET n == Len(events_prob)
    IN  IF n = 0 THEN F00
        ELSE FoldLeft(LAMBDA result, k : FAdd(result, term(events_prob, k)),
                      F00, [k \in 1..n |-> k])

\* the orders in which "for comp_id in cs" may visit a set (a product of at
\* most two factors is the same in either order)
IterOrders(cs) == IF Cardinality(cs) <= 2 THEN {SetToSeq(cs)} ELSE Perms(cs)

\* one order for each set of the list
RECURSIVE OrderChoices(_)
OrderChoices(cut_sets) ==
    IF cut_sets = <<>> THEN { <<>> }
    ELSE {<<o>> \o rest : o \in IterOrders(Head(cut_sets)),
                          rest \in OrderChoices(Tail(cut_sets))}

\* (variant: a component without a probability is taken as always working)
cs_prob_step_missing_works(component_probs, acc, comp_id) ==
    IF acc.raised THEN acc
    ELSE IF comp_id \in DOMAIN component_probs
         THEN [raised |-> FALSE, cs_prob |-> FMul(acc.cs_prob, component_probs[comp_id])]
         ELSE [raised |-> FALSE, cs_prob |-> F00]

\* one round of "for comp_id in cs" of calculate_system_unreliability: the
\* product so far, or the ValueError that ended the call
cs_prob_step(component_probs, acc, comp_id) ==
    IF acc.raised THEN acc
    ELSE IF comp_id \in DOMAIN component_probs
         THEN [raised |-> FALSE, cs_prob |-> FMul(acc.cs_prob, component_probs[comp_id])]
         ELSE [raised |-> TRUE, cs_prob |-> acc.cs_prob]

\* calculate_system_unreliability, orders[i] being the order in which the
\* members of cut_sets[i] are visited
calculate_system_unreliability(cut_sets, component_probs, orders) ==
    LET cs(i) ==
            FoldLeft(LAMBDA acc, comp_id : cs_prob_step(component_probs, acc, comp_id),
                     [raised |-> FALSE, cs_prob |-> F10], orders[i])
        cut_set_probs == [i \in DOMAIN cut_sets |-> cs(i)]
    IN  IF \E i \in DOMAIN cut_sets : cut_set_probs[i].raised
        THEN [cut_sets |-> cut_sets, component_probs |-> component_probs,
              raised |-> "ValueError", value |-> F00]
        ELSE [cut_sets |-> cut_sets, component_probs |-> component_probs,
              raised |-> "None",
              value |-> calculate_probability(
                            [i \in DOMAIN cut_sets |-> cut_set_probs[i].cs_prob])]

(***************************************************************************)
(* Component and ExponentialDistribution                                   *)
(***************************************************************************)
\* a component's failure_distribution is its failure rate, a float, or None
NoDistribution == [failure_distribution |-> "None"]

\* models.components.ExponentialDistribution(failure_rate): the rate is
\* stored as it is given
ExponentialDistribution(failure_rate) ==
    [raised |-> "None", failure_rate |-> failure_rate]

\* models.failure_models.ExponentialDistribution(failure_rate)
failure_models_ExponentialDistribution(failure_rate) ==
    IF FLeq(failure_rate, F00)
    THEN [raised |-> "ValueError", failure_rate |-> failure_rate]
    ELSE [raised |-> "None", failure_rate |-> failure_rate]

\* np.exp of the arguments -rate * time the model reaches
np_exp(x) ==
    CASE x.m = <<>> -> F10
      [] x = FInt(-1) -> [s |-> 0, m |-> <<7655, 6934, 5804, 188>>, e |-> -51]
      [] x = FInt(-2) -> [s |-> 0, m |-> <<8307, 9151, 2730, 277>>, e |-> -53]
      [] x = FInt(-4) -> [s |-> 0, m |-> <<3901, 14369, 1366, 300>>, e |-> -56]
      [] x = [s |-> 1, m |-> <<1>>, e |-> -40]
             -> [s |-> 0, m |-> <<16383, 16383, 4095>>, e |-> -40]
      [] x = [s |-> 1, m |-> <<1>>, e |-> -39]
             -> [s |-> 0, m |-> <<16383, 16383, 2047>>, e |-> -39]

\* ExponentialDistribution.probability_of_failure: 1 - exp(-rate * time)
exponential_probability_of_failure(failure_rate, time) ==
    FSub(F10, np_exp(FMul(FNeg(failure_rate), time)))

\* Component.probability_of_failure of a component that has a distribution
probability_of_failure(comps, comp_id, time) ==
    exponential_probability_of_failure(comps[comp_id], time)

(***************************************************************************)
(* ImportanceMeasures                                                      *)
(***************************************************************************)
\* one round of "for comp_id in cs" of _evaluate_reliability: a component
\* without a probability sets the product to 0.0 and the loop goes on
evaluate_cs_step(component_probs, cs_prob, comp_id) ==
    IF comp_id \in DOMAIN component_probs
    THEN FMul(cs_prob, component_probs[comp_id])
    ELSE F00

\* the probability that some cut set fails, of the failure probabilities
evaluate_unreliability(cut_sets, component_probs, orders) ==
    calculate_probability(
        [i \in DOMAIN cut_sets |->
            FoldLeft(LAMBDA acc, comp_id :
                         evaluate_cs_step(component_probs, acc, comp_id),
                     F10, orders[i])])

\* (variant: the reliabilities are taken as failure probabilities)
_evaluate_reliability_no_complement(cut_sets, component_reliabilities, orders) ==
    FSub(F10, evaluate_unreliability(cut_sets, component_reliabilities, orders))

_evaluate_reliability(cut_sets, component_reliabilities, orders) ==
    FSub(F10, evaluate_unreliability(
                  cut_sets,
                  [c_id \in DOMAIN component_reliabilities |->
                      FSub(F10, component_reliabilities[c_id])],
                  orders))

\* (variant: rel_failed is taken with every component failed)
birnbaum_difference_all_failed(cut_sets, comp_id, working_probs, orders) ==
    FSub(_evaluate_reliability(cut_sets, working_probs, orders),
         _evaluate_reliability(cut_sets, [c \in DOMAIN working_probs |-> F00],
                               orders))

\* rel_working - rel_failed of one component: the system's reliability with
\* the component working and with it failed
birnbaum_difference(cut_sets, comp_id, working_probs, orders) ==
    FSub(_evaluate_reliability(cut_sets, working_probs, orders),
         _evaluate_reliability(cut_sets, [working_probs EXCEPT ![comp_id] = F00],
                               orders))

\* the dictionary birnbaum_importance returns when every component has a
\* distribution
birnbaum(comps, cut_sets, time, orders) ==
    [comp_id \in DOMAIN comps |->
        birnbaum_difference(
            cut_sets, comp_id,
            [c_id \in DOMAIN comps |->
                IF c_id = comp_id THEN F10
                ELSE FSub(F10, probability_of_failure(comps, c_id, time))],
            orders)]

\* birnbaum_importance: probability_of_failure is called for every component
\* but the one under study and raises ValueError for a component without a
\* distribution
birnbaum_importance(comps, cut_sets, time, orders) ==
    IF \E comp_id, c_id \in DOMAIN comps :
           c_id # comp_id /\ comps[c_id] = NoDistribution
    THEN [cut_sets |-> cut_sets, time |-> time, orders |-> orders,
          raised |-> "ValueError", value |-> <<>>, system_unreliability |-> F00]
    ELSE [cut_sets |-> cut_sets, time |-> time, orders |-> orders,
          raised |-> "None",
          value |-> birnbaum(comps, cut_sets, time, orders),
          system_unreliability |-> F00]

\* (variant: the division is guarded against exactly zero only)
criticality_guard_zero_only(system_unreliability) ==
    system_unreliability.m = <<>>

\* the guard of the division: abs(system_unreliability) < 1e-10
criticality_guard(system_unreliability) ==
    FLt(FAbs(system_unreliability), F1em10)

\* the result of criticality_importance of the Birnbaum values, the
\* system's unreliability and the components' failure probabilities
criticality_of(cut_sets, time, orders, b, system_unreliability, comp_unreliabilities) ==
    [cut_sets |-> cut_sets, time |-> time, orders |-> orders,
     raised |-> "None",
     value |-> [comp_id \in DOMAIN b |->
                  IF criticality_guard(system_unreliability) THEN F00
                  ELSE FDiv(FMul(b[comp_id], comp_unreliabilities[comp_id]),
                            system_unreliability)],
     system_unreliability |-> system_unreliability]

criticality_importance(comps, cut_sets, time, orders) ==
    IF \E c \in DOMAIN comps : comps[c] = NoDistribution
    THEN [cut_sets |-> cut_sets, time |-> time, orders |-> orders,
          raised |-> "ValueError", value |-> <<>>, system_unreliability |-> F00]
    ELSE criticality_of(
             cut_sets, time, orders,
             birnbaum(comps, cut_sets, time, orders),
             FSub(F10, _evaluate_reliability(
                           cut_sets,
                           [c \in DOMAIN comps |->
                               FSub(F10, probability_of_failure(comps, c, time))],
                           orders)),
             [c \in DOMAIN comps |-> probability_of_failure(comps, c, time)])

(***************************************************************************)
(* MonteCarloSimulation.  Time points and sampled failure times are whole  *)
(* numbers; failure_times[t][comp_id][trial] is the sample of the          *)
(* component for the trial at the t-th time point.                         *)
(***************************************************************************)
\* the component lists of the paths; a path without components is dropped
sim_paths(all_paths) ==
    SelectSeq(Map(LAMBDA path : SelectSeq(path, LAMBDA node :
                                              node # source /\ node # sink),
                  all_paths),
              LAMBDA comps : comps # <<>>)

\* the first component, in the order of the dictionary, whose samples cannot
\* be drawn: no distribution (ValueError) or 1 / failure_rate with rate 0
\* (ZeroDivisionError); 0 when there is none
first_undrawable(comps, order) ==
    LET bad == {i \in DOMAIN order : comps[order[i]] \in {NoDistribution, F00}}
    IN  IF bad = {} THEN 0 ELSE CHOOSE i \in bad : \A j \in bad : i <= j

\* the trial's verdict: every path has a component that failed by the time
system_failed(paths, failure_times, trial, time_point) ==
    \A p \in DOMAIN paths :
        \E j \in DOMAIN paths[p] : failure_times[paths[p][j]][trial] <= time_point

failure_count(paths, failure_times, num_trials, time_point) ==
    Cardinality({trial \in 1..num_trials :
                    system_failed(paths, failure_times, trial, time_point)})

\* trial % (num_trials // 100) raises ZeroDivisionError for fewer than 100
\* trials
progress_raises(progress_callback, num_trials) ==
    progress_callback /\ num_trials \div 100 = 0

FMax(x, y) == IF FLt(x, y) THEN y ELSE x
FMin(x, y) == IF FLt(y, x) THEN y ELSE x

\* (variant: the failed fraction is reported as the reliability)
reliability_estimate_failed_fraction(failures, num_trials) ==
    FDiv(FInt(failures), FInt(num_trials))

\* 1 - (failure_count / num_trials)
reliability_estimate(failures, num_trials) ==
    FSub(F10, FDiv(FInt(failures), FInt(num_trials)))

\* the columns of a row, of its reliability and its margin
row_with_margin(reliability, margin, failures, num_trials) ==
    [reliability |-> reliability,
     unreliability |-> FSub(F10, reliability),
     ci_lower |-> FMax(F00, FSub(reliability, margin)),
     ci_upper |-> FMin(F10, FAdd(reliability, margin)),
     trials |-> num_trials,
     failures |-> failures]

\* margin = 1.96 * np.sqrt((reliability * (1 - reliability)) / num_trials)
row_of(reliability, failures, num_trials) ==
    row_with_margin(reliability,
                    FMul(F196, FSqrt(FDiv(FMul(reliability, FSub(F10, reliability)),
                                          FInt(num_trials)))),
                    failures, num_trials)

\* the columns computed from the failure count
row_values(failures, num_trials) ==
    row_of(reliability_estimate(failures, num_trials), failures, num_trials)

\* row_values of every failure count, each computed once
RowValues ==
    [num_trials \in 1..MaxSamples |->
        [failures \in 0..num_trials |-> row_values(failures, num_trials)]]

\* the row of a time point, of its computed columns
row_at(time_point, v) ==
    [time |-> time_point,
     reliability |-> v.reliability,
     unreliability |-> v.unreliability,
     ci_lower |-> v.ci_lower,
     ci_upper |-> v.ci_upper,
     trials |-> v.trials,
     failures |-> v.failures]

\* the row of one time point
result_row(time_point, failures, num_trials) ==
    row_at(time_point, RowValues[num_trials][failures])

\* simulate: what is raised, the number of calls of random_failure_time made,
\* and the table returned
simulate(comps, order, E, time_points, num_trials, progress_callback, failure_times) ==
    LET paths == sim_paths(get_all_paths(E))
        bad == first_undrawable(comps, order)
        call == [time_points |-> time_points, num_trials |-> num_trials,
                 progress_callback |-> progress_callback, paths |-> paths,
                 failure_times |-> failure_times]
        raise(error, draws) ==
            [call |-> call, raised |-> error, draws |-> draws, table |-> <<>>]
    IN  IF paths = <<>> THEN raise("ValueError", 0)
        ELSE IF time_points = <<>>
        THEN [call |-> call, raised |-> "None", draws |-> 0, table |-> <<>>]
        ELSE IF bad # 0
        THEN raise(IF comps[order[bad]] = NoDistribution THEN "ValueError"
                   ELSE "ZeroDivisionError", bad - 1)
        ELSE IF progress_raises(progress_callback, num_trials)
        THEN raise("ZeroDivisionError", Len(order))
        ELSE [call |-> call, raised |-> "None",
              draws |-> Len(order) * Len(time_points),
              table |-> [t \in DOMAIN time_points |->
                            result_row(time_points[t],
                                       failure_count(paths, failure_times[t],
                                                     num_trials, time_points[t]),
                                       num_trials)]]

(***************************************************************************)
(* SystemGraph as a value: the component dictionary (the map and its keys  *)
(* in insertion order), the nodes and the graph.                           *)
(***************************************************************************)
\* SystemGraph()
SystemGraph ==
    [components |-> <<>>, component_ids |-> <<>>, nodes |-> {source, sink},
     edges |-> NewGraph]

\* system.add_component(Component(id, distribution)): the exception raised,
\* if any, and the system after the call
SystemGraph_add_component(system, id, rate) ==
    IF id \in DOMAIN system.components
    THEN [raised |-> "ValueError", system |-> system]
    ELSE [raised |-> "None",
          system |-> [components |->
                          [c \in DOMAIN system.components \cup {id} |->
                              IF c = id THEN rate ELSE system.components[c]],
                      component_ids |-> Append(system.component_ids, id),
                      nodes |-> system.nodes \cup {id},
                      edges |-> graph_add_node(system.edges, id)]]

\* system.add_connection(from_id, to_id)
SystemGraph_add_connection(system, from_id, to_id) ==
    IF from_id \notin system.nodes \/ to_id \notin system.nodes
    THEN [raised |-> "ValueError", system |-> system]
    ELSE [raised |-> "None",
          system |-> [system EXCEPT
                          !.edges = graph_add_edge(system.edges, from_id, to_id)]]

(***************************************************************************)
(* Calls made on a system, in order.                                       *)
(***************************************************************************)
AddCompRate(id, rate) == [call |-> "add_component", a |-> id, b |-> rate]
AddConn(u, v) == [call |-> "add_connection", a |-> u, b |-> v]
\* a component with the failure rate 1.0
AddComp(id) == AddCompRate(id, F10)

\* one call on a system value
call_on(system, c) ==
    IF c.call = "add_component"
    THEN SystemGraph_add_component(system, c.a, c.b)
    ELSE SystemGraph_add_connection(system, c.a, c.b)

\* no exception so far, and the system
Built(system) == [raised |-> "None", system |-> system]

\* the calls made one after the other, up to the first that raises: the
\* exception, if any, and the system the calls leave
run_calls_from(built, calls) ==
    FoldLeft(LAMBDA acc, c : IF acc.raised # "None" THEN acc
                             ELSE call_on(acc.system, c),
             built, calls)

run_calls(system, calls) == run_calls_from(Built(system), calls)

(***************************************************************************)
(* InteractiveSystemBuilder._create_template_system                        *)
(***************************************************************************)
\* failure_rate = 0.01, common to the components of a template
template_failure_rate == F001

\* the components C1..Cn of a template
template_components(n) ==
    [i \in 1..n |-> AddCompRate(CName[i], template_failure_rate)]

TemplateTypes ==
    {"Series System (3 components)", "Parallel System (3 components)",
     "Series-Parallel System", "Bridge System"}

\* the calls made on the new system, in order
template_calls(template_type) ==
    CASE template_type = "Series System (3 components)" ->
             template_components(3)
             \o << AddConn(source, "C1"), AddConn("C1", "C2"),
                   AddConn("C2", "C3"), AddConn("C3", sink) >>
      [] template_type = "Parallel System (3 components)" ->
             template_components(3)
             \o Flatten([i \in 1..3 |-> << AddConn(source, CName[i]),
                                           AddConn(CName[i], sink) >>])
      [] template_type = "Series-Parallel System" ->
             template_components(4)
             \o << AddConn(source, "C1"), AddConn("C1", "C2"),
                   AddConn("C1", "C3"), AddConn("C2", "C4"),
                   AddConn("C3", "C4"), AddConn("C4", sink) >>
      [] template_type = "Bridge System" ->
             template_components(5)
             \o << AddConn(source, "C1"), AddConn(source, "C3"),
                   AddConn("C1", "C2"), AddConn("C1", "C4"),
                   AddConn("C3", "C4"), AddConn("C3", "C5"),
                   AddConn("C2", sink), AddConn("C4", "C2"),
                   AddConn("C5", sink) >>
      [] OTHER -> <<>>

\* the system the method returns
_create_template_system(template_type) ==
    run_calls(SystemGraph, template_calls(template_type)).system

(***************************************************************************)
(* Networks a caller builds call by call.                                  *)
(***************************************************************************)

SeriesCalls(n) ==
    [i \in 1..n |-> AddComp(CName[i])]
    \o << AddConn(source, CName[1]) >>
    \o [i \in 1..(n - 1) |-> AddConn(CName[i], CName[i + 1])]
    \o << AddConn(CName[n], sink) >>

ParallelCalls(n) ==
    [i \in 1..n |-> AddComp(CName[i])]
    \o Flatten([i \in 1..n |-> << AddConn(source, CName[i]),
                                  AddConn(CName[i], sink) >>])

\* the bridge network of A, B, C, D, E: A-B and D-E in series, C between
\* them (the builder's "Bridge System" is template_calls("Bridge System"))
BridgeCalls ==
    << AddComp("A"), AddComp("B"), AddComp("C"), AddComp("D"), AddComp("E"),
       AddConn(source, "A"), AddConn("A", "B"), AddConn("B", sink),
       AddConn(source, "D"), AddConn("D", "E"), AddConn("E", sink),
       AddConn("A", "C"), AddConn("D", "C"), AddConn("C", "B"),
       AddConn("C", "E") >>

Scripts ==
    {[kind |-> "series", n |-> n, calls |-> SeriesCalls(n)] : n \in 1..MaxN}
    \cup {[kind |-> "parallel", n |-> n, calls |-> ParallelCalls(n)] : n \in 1..MaxN}
    \cup {[kind |-> "bridge", n |-> 5, calls |-> BridgeCalls]}

NoScript == [kind |-> "none", n |-> 0, calls |-> <<>>]

\* networks a caller builds for the importance measures and the simulation:
\* components C1..Cn with the given distributions in series or in parallel,
\* and the series with a connection from the source to the sink added
ScriptRates == {NoDistribution, F00, FInt(1), FInt(2)}

SeriesOf(rates) ==
    [i \in 1..Len(rates) |-> AddCompRate(CName[i], rates[i])]
    \o SubSeq(SeriesCalls(Len(rates)), Len(rates) + 1, 2 * Len(rates) + 1)

ParallelOf(rates) ==
    [i \in 1..Len(rates) |-> AddCompRate(CName[i], rates[i])]
    \o SubSeq(ParallelCalls(Len(rates)), Len(rates) + 1, 3 * Len(rates))

Systems ==
    UNION {{[kind |-> "series", n |-> Len(rates), calls |-> SeriesOf(rates)],
            [kind |-> "parallel", n |-> Len(rates), calls |-> ParallelOf(rates)],
            [kind |-> "bypass", n |-> Len(rates),
             calls |-> SeriesOf(rates) \o << AddConn(source, sink) >>]} :
              rates \in UNION {[1..n -> ScriptRates] : n \in 1..MaxSeries}}

(***************************************************************************)
(* The state machine.                                                      *)
(***************************************************************************)
\* no BDDAnalyzer has been constructed; of a constructed one, the variables
\* its manager has declared
NoAnalyzer == [constructed |-> FALSE, vars |-> <<>>]

\* SystemGraph.__init__
EmptySystem ==
    /\ components = SystemGraph.components
    /\ component_ids = SystemGraph.component_ids
    /\ nodes = SystemGraph.nodes
    /\ edges = SystemGraph.edges

\* the system the state holds, as a value
System ==
    [components |-> components, component_ids |-> component_ids,
     nodes |-> nodes, edges |-> edges]

\* the state holds the system from now on
Becomes(system) ==
    /\ components' = system.components
    /\ component_ids' = system.component_ids
    /\ nodes' = system.nodes
    /\ edges' = system.edges

\* the lists of cut sets and the probability maps given to the probability
\* engine
\* component ids of the cut sets given to the probability engine
ProbCompIds == {"A", "B"}

CutSetLists ==
    UNION {[1..n -> SUBSET ProbCompIds] : n \in 0..MaxCutSets}

ProbValues == {F00, F01, F02, F05, F10}

ProbMaps == [ProbCompIds -> ProbValues]

\* probability maps that lack a component
MissingKeyMaps ==
    UNION {[D -> ProbValues] : D \in (SUBSET ProbCompIds) \ {ProbCompIds}}

Init ==
    /\ EmptySystem
    /\ op = "init"
    /\ ret = "None"
    /\ script = NoScript
    /\ pc = 1
    /\ bdd_analyzer = NoAnalyzer

InitScript ==
    /\ EmptySystem
    /\ op = "init"
    /\ ret = "None"
    /\ script \in Scripts
    /\ pc = 1
    /\ bdd_analyzer = NoAnalyzer

\* SystemGraph.add_component
add_component(id, rate) ==
    /\ op' = "add_component"
    /\ ret' = SystemGraph_add_component(System, id, rate).raised
    /\ Becomes(SystemGraph_add_component(System, id, rate).system)

\* (variant: the nodes are not tested, and add_edge adds the nodes the
\* graph lacks)
add_connection_untested(from_id, to_id) ==
    /\ op' = "add_connection"
    /\ ret' = "None"
    /\ nodes' = nodes \cup {from_id, to_id}
    /\ edges' = graph_add_edge(graph_add_node(graph_add_node(edges, from_id),
                                              to_id), from_id, to_id)
    /\ UNCHANGED <<components, component_ids>>

\* SystemGraph.add_connection
add_connection(from_id, to_id) ==
    /\ op' = "add_connection"
    /\ ret' = SystemGraph_add_connection(System, from_id, to_id).raised
    /\ Becomes(SystemGraph_add_connection(System, from_id, to_id).system)

InitProb ==
    /\ EmptySystem
    /\ op = "cut_sets"
    /\ ret \in CutSetLists
    /\ script = NoScript
    /\ pc = 1
    /\ bdd_analyzer = NoAnalyzer

\* the connections the general specification tries: from the source or a
\* component to a component or the sink
EdgeUniverse ==
    {e \in (CompIds \cup {source}) \X (CompIds \cup {sink}) : e[1] # e[2]}

\* the ids a call of the general specification adds a component under: an
\* id the system has, or the first id of CompIdSeq it has not (an id is a
\* name; the networks of the other orders are these with the ids exchanged)
AddableIds ==
    DOMAIN components
    \cup {CompIdSeq[i] : i \in {Len(component_ids) + 1} \cap DOMAIN CompIdSeq}

AddComponent ==
    /\ \E id \in AddableIds, rate \in Rates : add_component(id, rate)
    /\ UNCHANGED <<script, pc, bdd_analyzer>>

AddConnection ==
    /\ \E e \in EdgeUniverse :
           /\ e \in EdgeSet(edges) \/ Cardinality(EdgeSet(edges)) < MaxEdges
           /\ add_connection(e[1], e[2])
    /\ UNCHANGED <<script, pc, bdd_analyzer>>

\* the next call of the caller's script, on the system as it is now
ScriptStep ==
    /\ pc <= Len(script.calls)
    /\ LET c == script.calls[pc]
       IN  IF c.call = "add_component"
           THEN add_component(c.a, c.b)
           ELSE add_connection(c.a, c.b)
    /\ pc' = pc + 1
    /\ UNCHANGED <<script, bdd_analyzer>>

\* the builder's "Create Template": the system is replaced by the finished
\* template
CreateTemplate ==
    /\ op' = "create_template"
    /\ ret' = "None"
    /\ \E template_type \in TemplateTypes :
           Becomes(_create_template_system(template_type))
    /\ UNCHANGED <<script, pc, bdd_analyzer>>

\* the builder's "Add Component" with the values the form proposes: the id
\* C<n+1>, n being the number of components, and the failure rate 0.01
AddComponentProposed ==
    /\ Cardinality(DOMAIN components) < MaxN
    /\ add_component(CName[Cardinality(DOMAIN components) + 1],
                     ExponentialDistribution(F001).failure_rate)
    /\ UNCHANGED <<script, pc, bdd_analyzer>>

\* the builder's "Clear System": the system is replaced by a new SystemGraph
ClearSystem ==
    /\ op' = "clear_system"
    /\ ret' = "None"
    /\ Becomes(SystemGraph)
    /\ UNCHANGED <<script, pc, bdd_analyzer>>

\* (variant: the perfectly reliable components are taken out of the system)
FindMocusStripsSystem ==
    /\ op' = "mocus"
    /\ ret' \in MocusFind(components, edges)
    /\ components' = [c \in DOMAIN components \ perfectly_reliable_comps(components)
                          |-> components[c]]
    /\ component_ids' = SelectSeq(component_ids,
                                LAMBDA c : c \notin perfectly_reliable_comps(components))
    /\ UNCHANGED <<nodes, edges, script, pc, bdd_analyzer>>

\* MOCUSAnalyzer(system).find_minimal_cut_sets()
FindMocus ==
    /\ op' = "mocus"
    /\ ret' \in MocusFind(components, edges)
    /\ UNCHANGED <<components, component_ids, nodes, edges, script, pc, bdd_analyzer>>

\* BDDAnalyzer(system).find_minimal_cut_sets()
FindBdd ==
    /\ op' = "bdd"
    /\ ret' \in BddFind(component_ids, edges)
    /\ UNCHANGED <<components, component_ids, nodes, edges, script, pc, bdd_analyzer>>

\* CutSetComparison(system).run_comparison()
RunComparison ==
    /\ op' = "run_comparison"
    /\ ret' \in run_comparison(components, component_ids, edges)
    /\ UNCHANGED <<components, component_ids, nodes, edges, script, pc, bdd_analyzer>>

\* InclusionExclusion.calculate_system_unreliability on the list an engine
\* returned or the caller holds
unreliability_of(cut_sets, maps) ==
    /\ op' = "calculate_system_unreliability"
    /\ \E p \in maps :
           \E orders \in OrderChoices(cut_sets) :
               ret' = calculate_system_unreliability(cut_sets, p, orders)
    /\ UNCHANGED <<components, component_ids, nodes, edges, script, pc, bdd_analyzer>>

\* on an engine's result, with a probability for every component of the
\* system: 0.1 for all of them, or 1.0 for all of them
SystemUnreliability ==
    /\ op \in {"mocus", "bdd"}
    /\ unreliability_of(ret, {[c \in DOMAIN components |-> p] : p \in {F01, F10}})

\* on a list the caller holds
CalculateUnreliability ==
    /\ op = "cut_sets"
    /\ unreliability_of(ret, ProbMaps \cup MissingKeyMaps)

\* the times the importance measures are asked for: 0, 1, 2 and 2^-40
TimeValues == {F00, FInt(1), FInt(2), [s |-> 0, m |-> <<1>>, e |-> -40]}

InitSystems ==
    /\ EmptySystem
    /\ op = "init"
    /\ ret = "None"
    /\ script \in Systems
    /\ pc = 1
    /\ bdd_analyzer = NoAnalyzer

\* ImportanceMeasures(system, cut_sets).birnbaum_importance(time), the cut
\* sets being the list an engine returned
BirnbaumImportance ==
    /\ op \in {"mocus", "bdd"}
    /\ op' = "birnbaum_importance"
    /\ \E time \in TimeValues :
           \E orders \in OrderChoices(ret) :
               ret' = birnbaum_importance(components, ret, time, orders)
    /\ UNCHANGED <<components, component_ids, nodes, edges, script, pc, bdd_analyzer>>

\* ImportanceMeasures(system, cut_sets).criticality_importance(time)
CriticalityImportance ==
    /\ op \in {"mocus", "bdd"}
    /\ op' = "criticality_importance"
    /\ \E time \in TimeValues :
           \E orders \in OrderChoices(ret) :
               ret' = criticality_importance(components, ret, time, orders)
    /\ UNCHANGED <<components, component_ids, nodes, edges, script, pc, bdd_analyzer>>

\* the order of the dictionary of components: the order of the
\* add_component calls made
component_order ==
    LET made == SubSeq(script.calls, 1, pc - 1)
    IN  Map(LAMBDA c : c.a, SelectSeq(made, LAMBDA c : c.call = "add_component"))

\* the arguments of simulate and the values np.random.exponential gives
TimePoints == {1, 2}

TimePointLists == UNION {[1..n -> TimePoints] : n \in 0..MaxTimePoints}

TrialCounts == {1, 2, 4}

SimArguments ==
    {a \in TimePointLists \X TrialCounts : Len(a[1]) * a[2] <= MaxSamples}

SampleValues == {1, 2}

Samples(time_points, num_trials) ==
    [DOMAIN time_points -> [DOMAIN components -> [1..num_trials -> SampleValues]]]

\* the call reaches the sampling
SamplesDrawn ==
    /\ sim_paths(get_all_paths(edges)) # <<>>
    /\ first_undrawable(components, component_order) = 0

\* MonteCarloSimulation(system).simulate(time_points, num_trials, callback);
\* the call leaves the system as it is, so a call right after another
\* reaches nothing the first does not
Simulate ==
    /\ op # "simulate"
    /\ op' = "simulate"
    /\ \E a \in SimArguments, progress_callback \in BOOLEAN :
           \E failure_times \in
                  IF SamplesDrawn THEN Samples(a[1], a[2]) ELSE { <<>> } :
               ret' = simulate(components, component_order, edges, a[1], a[2],
                               progress_callback, failure_times)
    /\ UNCHANGED <<components, component_ids, nodes, edges, script, pc, bdd_analyzer>>

NextSim ==
    \/ ScriptStep
    \/ Simulate

NextImportance ==
    \/ ScriptStep
    \/ FindMocus
    \/ FindBdd
    \/ BirnbaumImportance
    \/ CriticalityImportance

Next ==
    \/ AddComponent
    \/ AddConnection
    \/ FindMocus
    \/ FindBdd
    \/ RunComparison
    \/ SystemUnreliability

NextScript ==
    \/ ScriptStep
    \/ FindMocus
    \/ FindBdd
    \/ RunComparison

\* the interactive builder: templates, clearing, and the engines
NextBuilder ==
    \/ AddComponentProposed
    \/ CreateTemplate
    \/ ClearSystem
    \/ FindMocus
    \/ FindBdd
    \/ RunComparison

Spec == Init /\ [][Next]_vars

SpecBuilder == Init /\ [][NextBuilder]_vars

SpecScript == InitScript /\ [][NextScript]_vars

SpecImportance == InitSystems /\ [][NextImportance]_vars

SpecSim == InitSystems /\ [][NextSim]_vars

SpecProb == InitProb /\ [][CalculateUnreliability]_vars

(***************************************************************************)
(* Networks whose components may carry the ids of the terminals and whose  *)
(* connections may enter the source or leave the sink.                     *)
(***************************************************************************)
TerminalIds == {"A", source, sink}

TerminalEdges == {e \in TerminalIds \X TerminalIds : e[1] # e[2]}

AddComponentAnyId ==
    /\ \E id \in TerminalIds, rate \in Rates : add_component(id, rate)
    /\ UNCHANGED <<script, pc, bdd_analyzer>>

AddConnectionAnyEnd ==
    /\ \E e \in TerminalEdges : add_connection(e[1], e[2])
    /\ UNCHANGED <<script, pc, bdd_analyzer>>

NextTerminals ==
    \/ AddComponentAnyId
    \/ AddConnectionAnyEnd
    \/ FindMocus
    \/ FindBdd
    \/ RunComparison

SpecTerminals == Init /\ [][NextTerminals]_vars

(***************************************************************************)
(* Callers that may repeat an id or name a node the graph lacks: every     *)
(* sequence of at most MaxCalls add_component and add_connection calls     *)
(* over two ids.                                                           *)
(***************************************************************************)
\* the calls a caller may make, numbered
AnyCalls ==
    << AddCompRate("A", F00), AddCompRate("A", F10),
       AddCompRate("B", F00), AddCompRate("B", F10),
       AddConn(source, "A"), AddConn(source, "B"), AddConn(source, sink),
       AddConn("A", "B"), AddConn("B", "A"),
       AddConn("A", sink), AddConn("B", sink) >>

\* the sequences of at most MaxCalls numbers of calls
CallNumbers == UNION {[1..n -> DOMAIN AnyCalls] : n \in 0..MaxCalls}

InitCalls ==
    /\ EmptySystem
    /\ op = "init"
    /\ ret = "None"
    /\ \E chosen \in CallNumbers :
           script = [kind |-> "calls", n |-> Len(chosen),
                     calls |-> [i \in DOMAIN chosen |-> AnyCalls[chosen[i]]]]
    /\ pc = 1
    /\ bdd_analyzer = NoAnalyzer

SpecCalls == InitCalls /\ [][ScriptStep]_vars

(***************************************************************************)
(* ImportanceMeasures(system, cut_sets) on a list the caller chose.        *)
(***************************************************************************)
\* the ids in the lists: a component of the networks and an id that no
\* network has
GivenIds == {"C1", "X"}

GivenCutSetLists ==
    UNION {[1..n -> (SUBSET GivenIds) \ {{}}] : n \in 0..MaxGiven}

\* the system has not been analysed since it was last changed
Unanalysed == op \in {"init", "add_component", "add_connection"}

BirnbaumImportanceGiven ==
    /\ Unanalysed
    /\ op' = "birnbaum_importance"
    /\ \E cut_sets \in GivenCutSetLists, time \in TimeValues :
           \E orders \in OrderChoices(cut_sets) :
               ret' = birnbaum_importance(components, cut_sets, time, orders)
    /\ UNCHANGED <<components, component_ids, nodes, edges, script, pc, bdd_analyzer>>

CriticalityImportanceGiven ==
    /\ Unanalysed
    /\ op' = "criticality_importance"
    /\ \E cut_sets \in GivenCutSetLists, time \in TimeValues :
           \E orders \in OrderChoices(cut_sets) :
               ret' = criticality_importance(components, cut_sets, time, orders)
    /\ UNCHANGED <<components, component_ids, nodes, edges, script, pc, bdd_analyzer>>

NextGiven ==
    \/ ScriptStep
    \/ BirnbaumImportanceGiven
    \/ CriticalityImportanceGiven

SpecGiven == InitSystems /\ [][NextGiven]_vars

(***************************************************************************)
(* A BDDAnalyzer that is kept and called again.                            *)
(***************************************************************************)
\* BDDAnalyzer(system): the manager declares a variable for each component
\* the system has now
ConstructBdd ==
    /\ op' = "BDDAnalyzer"
    /\ ret' = "None"
    /\ bdd_analyzer' = [constructed |-> TRUE, vars |-> component_ids]
    /\ UNCHANGED <<components, component_ids, nodes, edges, script, pc>>

\* what the manager raises for a variable it has not declared: ValueError,
\* or AssertionError in earlier releases of the library
UndeclaredErrors == {"ValueError", "AssertionError"}

\* find_minimal_cut_sets() of the analyzer constructed earlier
FindBddConstructed ==
    /\ bdd_analyzer.constructed
    /\ op' = "bdd_constructed"
    /\ \E error \in UndeclaredErrors :
           ret' \in bdd_find_constructed(bdd_analyzer.vars, edges, error)
    /\ UNCHANGED <<components, component_ids, nodes, edges, script, pc, bdd_analyzer>>

NextAnalysis ==
    \/ ScriptStep
    \/ ConstructBdd
    \/ FindBddConstructed
    \/ FindMocus
    \/ FindBdd
    \/ RunComparison
    \/ Simulate
    \/ BirnbaumImportance
    \/ CriticalityImportance

SpecAnalysis == InitSystems /\ [][NextAnalysis]_vars

(***************************************************************************)
(* import_from_json and import_from_xml: a new system is built from the    *)
(* document, its components first, each with the ExponentialDistribution   *)
(* of its failure_rate, then its connections; the system is returned when  *)
(* it is complete, and an exception on the way leaves the caller without   *)
(* one.                                                                    *)
(***************************************************************************)
\* a value a document leaves out
Absent == [absent |-> TRUE]

\* the failure_rate values of the JSON documents
ImportRates == {FInt(-2), F00, F10}

\* the failure_rate attributes of the XML documents: texts
XmlRates == {[text |-> t] : t \in {"-2", "0", "1", "abc"}}

\* float(text) of the texts of the XML documents
float(attribute) ==
    CASE attribute.text = "-2" -> [raised |-> "None", value |-> FInt(-2)]
      [] attribute.text = "0" -> [raised |-> "None", value |-> F00]
      [] attribute.text = "1" -> [raised |-> "None", value |-> F10]
      [] OTHER -> [raised |-> "ValueError", value |-> F00]

\* a component of a document: its keys (attributes) are those it gives
DocComp(id, failure_rate) ==
    IF failure_rate = Absent THEN [id |-> id, name |-> "Component"]
    ELSE [id |-> id, name |-> "Component", failure_rate |-> failure_rate]

\* a component that gives no id
DocCompNoId(failure_rate) ==
    IF failure_rate = Absent THEN [name |-> "Component"]
    ELSE [name |-> "Component", failure_rate |-> failure_rate]

\* the connections of the series and of the parallel network of C1..Cn
SeriesConnections(n) == SubSeq(SeriesCalls(n), n + 1, 2 * n + 1)
ParallelConnections(n) == SubSeq(ParallelCalls(n), n + 1, 3 * n)

\* documents: C1..Cn in series or in parallel with the given rates, a
\* document that names C1 twice, one whose connection names a component
\* the document does not have, and one whose components give no id
DocumentsOf(rates) ==
    UNION {UNION {{[components |-> [i \in 1..n |-> DocComp(CName[i], r[i])],
             connections |-> SeriesConnections(n)],
            [components |-> [i \in 1..n |-> DocComp(CName[i], r[i])],
             connections |-> ParallelConnections(n)],
            [components |-> [i \in 1..n |-> DocComp(CName[1], r[i])],
             connections |-> SeriesConnections(1)],
            [components |-> [i \in 1..n |-> DocComp(CName[i], r[i])],
             connections |-> SeriesConnections(n + 1)],
            [components |-> [i \in 1..n |-> DocCompNoId(r[i])],
             connections |-> << AddConn(source, sink) >>]} :
              r \in [1..n -> rates \cup {Absent}]} : n \in 1..MaxSeries}

\* str(uuid.uuid4()): the values the calls of one import may return, one
\* call after the other (no two alike)
Uuid4Values(n) ==
    {u \in [1..n -> {UuidName[i] : i \in 1..(n + 1)}] :
        \A i, j \in 1..n : u[i] = u[j] => i = j}

\* d.get(key, default)
get(d, key, default) == IF key \in DOMAIN d THEN d[key] ELSE default

\* Component(id=comp_data.get("id"), ...): __post_init__ gives a component
\* without id a uuid
Component_id(comp_data, uuid4) == get(comp_data, "id", uuid4)

\* the components of a document, each with the uuid its construction draws
\* when it has no id
with_uuid4(comps, uuid4) ==
    [i \in DOMAIN comps |-> [data |-> comps[i], uuid4 |-> uuid4[i]]]

\* one round of the component loop of import_from_json
json_component(acc, comp) ==
    IF acc.raised # "None" THEN acc
    ELSE SystemGraph_add_component(
             acc.system, Component_id(comp.data, comp.uuid4),
             ExponentialDistribution(get(comp.data, "failure_rate", F001))
                 .failure_rate)

\* import_from_json(filename) of the file that holds the document: the
\* exception that ends the call, if any, and the system built
import_from_json(data, uuid4) ==
    run_calls_from(FoldLeft(json_component, Built(SystemGraph),
                            with_uuid4(data.components, uuid4)),
                   data.connections)

\* one round of the component loop of import_from_xml: float() of the
\* attribute, or of 0.01 when the component has none, comes first
xml_component(acc, comp) ==
    IF acc.raised # "None" THEN acc
    ELSE IF "failure_rate" \notin DOMAIN comp.data
    THEN SystemGraph_add_component(acc.system,
                                   Component_id(comp.data, comp.uuid4),
                                   ExponentialDistribution(F001).failure_rate)
    ELSE IF float(comp.data.failure_rate).raised # "None"
    THEN [raised |-> float(comp.data.failure_rate).raised,
          system |-> acc.system]
    ELSE SystemGraph_add_component(
             acc.system, Component_id(comp.data, comp.uuid4),
             ExponentialDistribution(float(comp.data.failure_rate).value)
                 .failure_rate)

\* import_from_xml(filename)
import_from_xml(root, uuid4) ==
    run_calls_from(FoldLeft(xml_component, Built(SystemGraph),
                            with_uuid4(root.components, uuid4)),
                   root.connections)

\* the caller of an import holds the system returned; a call that raises
\* returns none and the caller keeps the system it has
Imported(result) ==
    /\ ret' = result.raised
    /\ IF result.raised = "None" THEN Becomes(result.system)
       ELSE UNCHANGED <<components, component_ids, nodes, edges>>

ImportFromJson ==
    /\ op' = "import_from_json"
    /\ \E data \in DocumentsOf(ImportRates) :
           \E uuid4 \in Uuid4Values(Len(data.components)) :
               Imported(import_from_json(data, uuid4))
    /\ UNCHANGED <<script, pc, bdd_analyzer>>

ImportFromXml ==
    /\ op' = "import_from_xml"
    /\ \E root \in DocumentsOf(XmlRates) :
           \E uuid4 \in Uuid4Values(Len(root.components)) :
               Imported(import_from_xml(root, uuid4))
    /\ UNCHANGED <<script, pc, bdd_analyzer>>

\* a caller constructs the distribution of models.failure_models
ConstructFailureModel ==
    /\ op' = "failure_models.ExponentialDistribution"
    /\ \E failure_rate \in ImportRates :
           ret' = failure_models_ExponentialDistribution(failure_rate)
    /\ UNCHANGED <<components, component_ids, nodes, edges, script, pc, bdd_analyzer>>

NextImport ==
    \/ ImportFromJson
    \/ ImportFromXml
    \/ ConstructFailureModel
    \/ FindMocus
    \/ FindBdd

SpecImport == Init /\ [][NextImport]_vars

(***************************************************************************)
(* Definitions the properties are stated with.                             *)
(***************************************************************************)
\* the simple paths from the source to the sink, by their definition: the
\* source, distinct other nodes, the sink, consecutive nodes connected
SimplePaths ==
    LET inner == nodes \ {source, sink}
        cands == {<<source>> \o q \o <<sink>> :
                     q \in UNION {Perms(T) : T \in SUBSET inner}}
    IN  {p \in cands : \A i \in 1..(Len(p) - 1) :
                         <<p[i], p[i + 1]>> \in EdgeSet(edges)}

\* S has a member on every simple source-sink path
HitsEveryPath(S) == \A p \in SimplePaths : S \cap Range(p) # {}

\* the minimal cut sets of the network
MinimalCutSets ==
    {S \in SUBSET (DOMAIN components) :
        /\ HitsEveryPath(S)
        /\ \A T \in SUBSET S : T # S => ~HitsEveryPath(T)}

\* the rate of a distribution is above zero
PositiveRate(rate) == rate # NoDistribution /\ rate.s = 0 /\ rate.m # <<>>

AllRatesPositive == \A c \in DOMAIN components : PositiveRate(components[c])

DirectEdge == <<source, sink>> \in EdgeSet(edges)

IsAntichain(list) ==
    \A i, j \in DOMAIN list : i # j => ~(list[i] \subseteq list[j])

\* the network is the series network source->C1->...->Cn->sink
SeriesNetwork(n) ==
    /\ DOMAIN components = {CName[i] : i \in 1..n}
    /\ EdgeSet(edges) = {<<source, CName[1]>>, <<CName[n], sink>>}
                            \cup {<<CName[i], CName[i + 1]>> : i \in 1..(n - 1)}

\* the network is the parallel network source->Ci->sink, i = 1..n
ParallelNetwork(n) ==
    /\ DOMAIN components = {CName[i] : i \in 1..n}
    /\ EdgeSet(edges) = {<<source, CName[i]>> : i \in 1..n}
                            \cup {<<CName[i], sink>> : i \in 1..n}

\* the network is the bridge network of A, B, C, D, E
BridgeNetwork ==
    /\ DOMAIN components = {"A", "B", "C", "D", "E"}
    /\ EdgeSet(edges) = {<<source, "A">>, <<"A", "B">>, <<"B", sink>>,
                         <<source, "D">>, <<"D", "E">>, <<"E", sink>>,
                         <<"A", "C">>, <<"D", "C">>, <<"C", "B">>,
                         <<"C", "E">>}

\* the cut-set lists of the last call, whichever engine call it was
ReturnedLists ==
    IF op \in {"mocus", "bdd"} THEN {ret}
    ELSE IF op = "run_comparison" THEN {ret.mocus.cut_sets, ret.bdd.cut_sets}
    ELSE {}

Unreliability == op = "calculate_system_unreliability" /\ ret.raised = "None"

(***************************************************************************)
(* Properties.                                                             *)
(***************************************************************************)
\* C1: on a network whose components all have a positive failure rate,
\* run_comparison reports match = true: the MOCUS list and the BDD list are
\* equal as sets of sets.
C1_EnginesMatch ==
    (op = "run_comparison" /\ AllRatesPositive)
        => /\ ret.match = TRUE
           /\ Range(ret.mocus.cut_sets) = Range(ret.bdd.cut_sets)

C1_Witness ==
    /\ op = "run_comparison"
    /\ AllRatesPositive
    /\ ret.match = TRUE
    /\ ret.mocus.count >= 2
    /\ \E i \in DOMAIN ret.bdd.cut_sets : Cardinality(ret.bdd.cut_sets[i]) >= 2

\* C2: on a network with a source-sink path, no direct source-sink edge and
\* only positive failure rates, MOCUS returns exactly the minimal cut sets:
\* the sets that meet every simple path and have no proper subset that does.
C2_MocusExact ==
    (op = "mocus" /\ AllRatesPositive /\ ~DirectEdge /\ SimplePaths # {})
        => Range(ret) = MinimalCutSets

C2_Witness ==
    /\ op = "mocus"
    /\ AllRatesPositive
    /\ ~DirectEdge
    /\ Cardinality(SimplePaths) >= 2
    /\ Len(ret) >= 2
    /\ \E i \in DOMAIN ret : Cardinality(ret[i]) >= 2

\* C3: the list either engine returns is an antichain: no entry is a subset
\* of another entry, and no set occurs twice.
C3_Antichain ==
    op \in {"mocus", "bdd"} => IsAntichain(ret)

C3_Witness ==
    /\ op = "bdd"
    /\ Len(ret) >= 2
    /\ \E c \in DOMAIN components : components[c] = F00

\* C4: on the bridge network both engines return exactly {A,D}, {B,E},
\* {A,C,E} and {B,C,D}.
BridgeCutSets == {{"A", "D"}, {"B", "E"}, {"A", "C", "E"}, {"B", "C", "D"}}

C4_Bridge ==
    BridgeNetwork
        => \A list \in ReturnedLists :
               Range(list) = BridgeCutSets /\ Len(list) = 4

C4_Witness ==
    /\ BridgeNetwork
    /\ op = "run_comparison"
    /\ Len(ret.mocus.cut_sets) = 4
    /\ Len(ret.bdd.cut_sets) = 4

\* C5: on the series network of n components both engines return exactly
\* the n singletons {C1}, ..., {Cn}.
C5_Series ==
    \A n \in 1..MaxN :
        SeriesNetwork(n)
            => \A list \in ReturnedLists :
                   /\ Range(list) = {{CName[i]} : i \in 1..n}
                   /\ Len(list) = n

C5_Witness ==
    /\ SeriesNetwork(MaxN)
    /\ op = "run_comparison"
    /\ ret.mocus.count = MaxN
    /\ ret.bdd.count = MaxN

\* C6: on the parallel network of n components both engines return exactly
\* one cut set, {C1, ..., Cn}.
C6_Parallel ==
    \A n \in 1..MaxN :
        ParallelNetwork(n)
            => \A list \in ReturnedLists :
                   list = << {CName[i] : i \in 1..n} >>

C6_Witness ==
    /\ ParallelNetwork(MaxN)
    /\ op = "run_comparison"
    /\ ret.mocus.count = 1
    /\ ret.bdd.count = 1

\* C7: on a network with the edge source->sink both engines return the empty
\* list, and calculate_system_unreliability of that list is 0.0 whatever the
\* probability map.
C7_DirectEdge ==
    DirectEdge
        => /\ \A list \in ReturnedLists : list = <<>>
           /\ op = "calculate_system_unreliability"
                  => ret.raised = "None" /\ ret.value = F00

C7_Witness ==
    /\ DirectEdge
    /\ \E p \in SimplePaths : Len(p) > 2
    /\ op = "calculate_system_unreliability"
    /\ ret.cut_sets = <<>>
    /\ ret.value = F00
    /\ \E c \in DOMAIN ret.component_probs : ret.component_probs[c] = F10

\* |x - y| <= 2^-40
Close(x, y) ==
    LET d == FSub(x, y)
    IN  FLeq([d EXCEPT !.s = 0], [s |-> 0, m |-> <<1>>, e |-> -40])

\* the probability that all members of the cut sets of a combination have
\* failed: the product over the union of their members
union_prob(cut_sets, component_probs, combo) ==
    FoldLeft(LAMBDA acc, c : FMul(acc, component_probs[c]), F10,
             SetToSeq(UNION {cut_sets[i] : i \in Range(combo)}))

\* inclusion-exclusion over the cut sets with the terms of the unions
union_unreliability(cut_sets, component_probs) ==
    LET n == Len(cut_sets)
        round(k) ==
            FMul(FInt(IF (k - 1) % 2 = 0 THEN 1 ELSE -1),
                 FoldLeft(LAMBDA acc, combo :
                              FAdd(acc, union_prob(cut_sets, component_probs, combo)),
                          F00, combinations(1, n, k)))
    IN  FoldLeft(LAMBDA result, k : FAdd(result, round(k)), F00,
                 [k \in 1..n |-> k])

\* C8: calculate_system_unreliability returns the probability that at least
\* one cut set has all its members failed: the term of a combination of cut
\* sets is the product over the union of their members.
C8_UnionTerms ==
    Unreliability
        => Close(ret.value, union_unreliability(ret.cut_sets, ret.component_probs))

\* C9: for the cut sets [{A},{B}], A # B, calculate_system_unreliability
\* returns pA + pB - pA*pB; 0.28 for pA = 0.1 and pB = 0.2.
C9_TwoSingletons ==
    \A a, b \in ProbCompIds :
        (Unreliability /\ a # b /\ ret.cut_sets = << {a}, {b} >>)
            => LET pA == ret.component_probs[a]
                   pB == ret.component_probs[b]
               IN  /\ ret.value = FSub(FAdd(pA, pB), FMul(pA, pB))
                   /\ (pA = F01 /\ pB = F02) => ret.value = F028

C9_Witness ==
    /\ Unreliability
    /\ ret.cut_sets = << {"A"}, {"B"} >>
    /\ ret.component_probs["A"] = F01
    /\ ret.component_probs["B"] = F02
    /\ ret.value = F028

\* C10: with all probabilities in [0,1], the value calculate_system_unreliability
\* returns lies in [0,1].
C10_InUnitInterval ==
    Unreliability => FLeq(F00, ret.value) /\ FLeq(ret.value, F10)

\* a cut set of the list names a component the probability map lacks
MissingProbability(cut_sets, component_probs) ==
    \E i \in DOMAIN cut_sets : ~(cut_sets[i] \subseteq DOMAIN component_probs)

\* C11: calculate_system_unreliability raises and returns no value whenever
\* a cut set of the list contains a component that is not a key of the
\* probability map, wherever that cut set is and whatever the other
\* probabilities are.
C11_MissingRaises ==
    op = "calculate_system_unreliability"
        => (MissingProbability(ret.cut_sets, ret.component_probs)
                <=> ret.raised = "ValueError")

C11_Witness ==
    /\ op = "calculate_system_unreliability"
    /\ ret.cut_sets = << {"A"}, {"A", "B"} >>
    /\ DOMAIN ret.component_probs = {"A"}
    /\ ret.component_probs["A"] = F00
    /\ ret.raised = "ValueError"

\* the reliability of a component at a time: 1 - probability_of_failure
Reliability(comp_id, time) ==
    FSub(F10, probability_of_failure(components, comp_id, time))

\* the cut sets of the two-component series system
SeriesOfTwo(cut_sets) ==
    /\ SeriesNetwork(2)
    /\ Len(cut_sets) = 2
    /\ Range(cut_sets) = {{CName[1]}, {CName[2]}}

\* C12: for the series system of C1 and C2 with the cut sets [{C1},{C2}],
\* birnbaum_importance returns Birnbaum(C1) = R2 and Birnbaum(C2) = R1, the
\* reliabilities of the components at the given time (equal as Python floats
\* up to the rounding of the subtractions).
C12_BirnbaumSeries ==
    (op = "birnbaum_importance" /\ ret.raised = "None" /\ SeriesOfTwo(ret.cut_sets))
        => /\ Close(ret.value[CName[1]], Reliability(CName[2], ret.time))
           /\ Close(ret.value[CName[2]], Reliability(CName[1], ret.time))

C12_Witness ==
    /\ op = "birnbaum_importance"
    /\ ret.raised = "None"
    /\ SeriesOfTwo(ret.cut_sets)
    /\ ret.time = FInt(1)
    /\ components[CName[1]] = FInt(1)
    /\ components[CName[2]] = FInt(2)
    /\ ~Close(ret.value[CName[1]], ret.value[CName[2]])

\* the probability engine's value for the cut sets and the components'
\* failure probabilities at the time
EngineUnreliability(cut_sets, time, orders) ==
    calculate_system_unreliability(
        cut_sets,
        [c \in DOMAIN components |-> probability_of_failure(components, c, time)],
        orders).value

\* C13: criticality_importance returns Birnbaum(i) * P(i fails) / P(system
\* fails) for every component i when the system unreliability is at least
\* 1e-10, and 0 for every component when it is below 1e-10; the system
\* unreliability is the probability engine's value for the cut sets.
C13_Criticality ==
    (op = "criticality_importance" /\ ret.raised = "None")
        => LET U == ret.system_unreliability
               B == birnbaum(components, ret.cut_sets, ret.time, ret.orders)
           IN  /\ Close(U, EngineUnreliability(ret.cut_sets, ret.time, ret.orders))
               /\ \A i \in DOMAIN components :
                      ret.value[i] =
                          IF FLt(U, F1em10) THEN F00
                          ELSE FDiv(FMul(B[i], probability_of_failure(
                                                   components, i, ret.time)), U)

C13_Witness ==
    /\ op = "criticality_importance"
    /\ ret.raised = "None"
    /\ SeriesOfTwo(ret.cut_sets)
    /\ ret.system_unreliability # F00
    /\ FLt(ret.system_unreliability, F1em10)
    /\ \A i \in DOMAIN components :
           /\ probability_of_failure(components, i, ret.time) # F00
           /\ ret.value[i] = F00

Simulated == op = "simulate" /\ ret.raised = "None"

\* the components on a path of the network
PathComponents(p) == Range(p) \ {source, sink}

\* the trials of the t-th time point in which every simple source-sink path
\* has a component whose sample is at most the time point
FailedTrials(t) ==
    {trial \in 1..ret.call.num_trials :
        \A p \in SimplePaths :
            \E c \in PathComponents(p) :
                ret.call.failure_times[t][c][trial] <= ret.call.time_points[t]}

\* C14: in the table simulate returns, the failures of a time point is the
\* number of trials in which every source-sink path has a component whose
\* sampled failure time is <= the time point; the path source->sink has no
\* component and is never broken.
C14_FailedIffEveryPathBroken ==
    Simulated
        => \A t \in DOMAIN ret.table :
               ret.table[t].failures = Cardinality(FailedTrials(t))

\* the call made no draw and ended with an error
RaisedBeforeSampling == op = "simulate" => ret.raised # "None" /\ ret.draws = 0

\* C15: simulate raises before any random failure time is drawn whenever
\* the network has no source-sink path or a component has no distribution,
\* whatever the time points.
C15_ErrorBeforeSampling ==
    (SimplePaths = {} \/ \E c \in DOMAIN components : components[c] = NoDistribution)
        => RaisedBeforeSampling

\* C16: with a progress callback simulate ends as it does without one on the
\* same samples: the same error or the same table.
C16_CallbackAdvisory ==
    (op = "simulate" /\ ret.call.progress_callback)
        => LET without == simulate(components, component_order, edges,
                                   ret.call.time_points, ret.call.num_trials,
                                   FALSE, ret.call.failure_times)
           IN  ret.raised = without.raised /\ ret.table = without.table

\* the columns of a row that are computed from the failure count
RowColumns(row) ==
    [reliability |-> row.reliability, unreliability |-> row.unreliability,
     ci_lower |-> row.ci_lower, ci_upper |-> row.ci_upper,
     trials |-> row.trials, failures |-> row.failures]

\* reliability = 1 - failures / trials, unreliability = 1 - reliability and
\* 0 <= ci_lower <= reliability <= ci_upper <= 1
ColumnsHold(v) ==
    /\ v.reliability = FSub(F10, FDiv(FInt(v.failures), FInt(v.trials)))
    /\ v.unreliability = FSub(F10, v.reliability)
    /\ FLeq(F00, v.ci_lower)
    /\ FLeq(v.ci_lower, v.reliability)
    /\ FLeq(v.reliability, v.ci_upper)
    /\ FLeq(v.ci_upper, F10)

\* ColumnsHold of the columns simulate computes, each decided once
CheckedColumns ==
    [v \in UNION {{RowValues[n][f] : f \in 0..n} : n \in 1..MaxSamples}
        |-> ColumnsHold(v)]

\* C17: the table has one row for each time point, in the order given, and
\* in every row trials = num_trials, 0 <= failures <= num_trials,
\* reliability = 1 - failures / num_trials, unreliability = 1 - reliability
\* and 0 <= ci_lower <= reliability <= ci_upper <= 1.
C17_Rows ==
    Simulated
        => /\ Len(ret.table) = Len(ret.call.time_points)
           /\ \A t \in DOMAIN ret.table :
                  LET row == ret.table[t]
                  IN  /\ row.time = ret.call.time_points[t]
                      /\ row.trials = ret.call.num_trials
                      /\ row.failures \in 0..ret.call.num_trials
                      /\ RowColumns(row) \in DOMAIN CheckedColumns
                      /\ CheckedColumns[RowColumns(row)]

C17_Witness ==
    /\ Simulated
    /\ ret.call.time_points = <<2, 1>>
    /\ ret.call.num_trials = 2
    /\ ret.table[1].time = 2
    /\ ret.table[1].failures = 2
    /\ ret.table[2].failures = 1

\* the step is an add_component or add_connection call that raised
Rejected == op' \in {"add_component", "add_connection"} /\ ret' = "ValueError"

\* the call the caller makes next, and the step that makes it
NextCall == script.calls[pc]

CallMade == pc <= Len(script.calls) /\ pc' = pc + 1

\* the calls made are the given ones: the same methods with the same
\* arguments, in the same order
SameCalls(made, given) ==
    /\ Len(made) = Len(given)
    /\ \A i \in DOMAIN given :
           /\ made[i].call = given[i].call
           /\ made[i].a = given[i].a
           /\ made[i].b = given[i].b

\* add_component is called with an id that the component map already has
DuplicateId ==
    /\ NextCall.call = "add_component"
    /\ NextCall.a \in DOMAIN components

\* add_connection is called with a from_id or a to_id that is not a node
MissingEndpoint ==
    /\ NextCall.call = "add_connection"
    /\ NextCall.a \notin nodes \/ NextCall.b \notin nodes

\* C18: in any sequence of add_component and add_connection calls, a call
\* of add_component with an id already in the component map, and a call of
\* add_connection whose from_id or to_id is not a node of the graph, raises
\* ValueError and leaves the components, the nodes and the edges as they
\* were before the call; every call that raises leaves them so, and no edge
\* ever names a missing node.
C18_RejectedUnchanged ==
    /\ [][CallMade /\ (DuplicateId \/ MissingEndpoint)
              => /\ ret' = "ValueError"
                 /\ UNCHANGED <<components, component_ids, nodes, edges>>]_vars
    /\ [][Rejected => UNCHANGED <<components, component_ids, nodes, edges>>]_vars
    /\ [](\A e \in EdgeSet(edges) : e[1] \in nodes /\ e[2] \in nodes)

\* A is added, added again with another rate (rejected), connected to the
\* source, and connected to B, which was never added (rejected): the system
\* is as the two accepted calls left it
C18_Witness ==
    /\ SameCalls(script.calls,
                 << AddCompRate("A", F10), AddCompRate("A", F00),
                    AddConn(source, "A"), AddConn("A", "B") >>)
    /\ pc = 5
    /\ op = "add_connection"
    /\ ret = "ValueError"
    /\ DOMAIN components = {"A"}
    /\ components["A"] = F10
    /\ component_ids = << "A" >>
    /\ nodes = {source, sink, "A"}
    /\ EdgeSet(edges) = {<<source, "A">>}

\* the components that can fail: those not known to have failure rate 0
Fallible == {c \in DOMAIN components : components[c] # F00}

\* a source-sink path exists and no set of fallible components has a member
\* on every path
StructurallyPerfect ==
    /\ SimplePaths # {}
    /\ \A S \in SUBSET Fallible : ~HitsEveryPath(S)

\* C19: whenever an engine returns the empty list the network is
\* structurally perfectly reliable: it has a source-sink path and no
\* failures of fallible components break every path.
C19_EmptyListMeansPerfect ==
    \A list \in ReturnedLists : list = <<>> => StructurallyPerfect

\* C20: on a network without a source-sink path find_minimal_cut_sets of
\* either engine raises NoPathsError and returns no cut-set list.
C20_NoPathsError ==
    (op \in {"mocus", "bdd"} /\ SimplePaths = {})
        => ret \notin Seq(SUBSET (DOMAIN components))

\* C21: no component carries an exponential distribution with a rate <= 0:
\* constructing one with a non-positive rate is rejected by the class of
\* models.failure_models and by the class of models.components the importers
\* use.
C21_NonPositiveRateRejected ==
    /\ \A c \in DOMAIN components : PositiveRate(components[c])
    /\ op = "failure_models.ExponentialDistribution"
           => (FLeq(ret.failure_rate, F00) => ret.raised = "ValueError")

\* a source-sink path with no component left once the terminals and the
\* components of failure rate 0 are removed
PerfectPath ==
    \E p \in SimplePaths :
        Range(p) \subseteq {source, sink} \cup perfectly_reliable_comps(components)

\* C22: when a source-sink path has no component left after the terminals
\* and the zero-rate components are removed, MOCUS returns the empty list,
\* whatever the other paths contain.
C22_PerfectPathMeansEmpty ==
    (op = "mocus" /\ PerfectPath) => ret = <<>>

\* C23: the BDD engine applies the zero-rate policy of the MOCUS engine: no
\* cut set it returns holds a component of failure rate 0, and on a network
\* with such components it returns the same set of cut sets as MOCUS.
C23_BddZeroRatePolicy ==
    op = "bdd"
        => /\ \A i \in DOMAIN ret :
                  ret[i] \cap perfectly_reliable_comps(components) = {}
           /\ perfectly_reliable_comps(components) # {}
                  => Range(ret) = MocusCutSets(components, edges)

\* C24: a call of find_minimal_cut_sets on an analyzer constructed earlier
\* returns the minimal cut sets of the network as it is at the call, also
\* when components on a source-sink path were added after the construction:
\* it raises nothing and returns what an analyzer constructed at the call
\* returns, the minimal cut sets when the rates are positive and the network
\* has a path and no direct connection.
C24_CurrentNetwork ==
    op = "bdd_constructed"
        => /\ ret.raised = "None"
           /\ Range(ret.cut_sets) = BddCutSets(component_ids, edges)
           /\ (AllRatesPositive /\ ~DirectEdge /\ SimplePaths # {})
                  => Range(ret.cut_sets) = MinimalCutSets

\* the step is a call of an analysis operation
AnalysisStep ==
    op' \in {"mocus", "BDDAnalyzer", "bdd", "bdd_constructed", "run_comparison",
             "simulate", "birnbaum_importance", "criticality_importance"}

\* C25: every analysis operation (the engines, the construction of a
\* BDDAnalyzer, run_comparison, simulate, the importance measures) leaves
\* the nodes, the edges and the component map as they are, whether it
\* returns or raises.
C25_AnalysisReadsOnly ==
    [][AnalysisStep => UNCHANGED <<components, component_ids, nodes, edges>>]_vars

\* analysis calls that raised on a network with components and connections
C25_Witness ==
    /\ DOMAIN components # {}
    /\ EdgeSet(edges) # {}
    /\ \/ op = "bdd_constructed" /\ ret.raised # "None"
       \/ op = "simulate" /\ ret.raised = "ValueError"
       \/ op = "criticality_importance" /\ ret.raised = "ValueError"

\* the call was an importance measure
Importance == op \in {"birnbaum_importance", "criticality_importance"}

\* a cut set of the list names an id that is no component of the system
ForeignMember ==
    \E i \in DOMAIN ret.cut_sets : ~(ret.cut_sets[i] \subseteq DOMAIN components)

\* C26: when a cut set given to ImportanceMeasures names an id that is not a
\* component of the system, birnbaum_importance and criticality_importance
\* report an error.
C26_ForeignMemberRaises ==
    (Importance /\ ForeignMember) => ret.raised # "None"

\* C27: after any add_component and add_connection calls, components with
\* the id of the source or the sink and connections into the source or out
\* of the sink included, no cut set either engine returns holds the source
\* id or the sink id.
C27_NoTerminalInCutSet ==
    \A list \in ReturnedLists :
        \A i \in DOMAIN list : source \notin list[i] /\ sink \notin list[i]

\* both engines return a cut set on a network that has components named as
\* the terminals, a connection into the source and one out of the sink
C27_Witness ==
    /\ {source, sink} \subseteq DOMAIN components
    /\ \E e \in EdgeSet(edges) : e[2] = source
    /\ \E e \in EdgeSet(edges) : e[1] = sink
    /\ op = "run_comparison"
    /\ ret.mocus.count >= 1
    /\ ret.bdd.count >= 1

\* 1 - PRODUCT over the cut sets of (1 - PRODUCT of the members'
\* probabilities)
independent_unreliability(cut_sets, component_probs) ==
    FSub(F10,
         FoldLeft(LAMBDA acc, cs :
                      FMul(acc,
                           FSub(F10,
                                FoldLeft(LAMBDA prob, c : FMul(prob, component_probs[c]),
                                         F10, SetToSeq(cs)))),
                  F10, cut_sets))

\* C28: with a probability for every member of the cut sets,
\* calculate_system_unreliability returns 1 - PRODUCT over i of
\* (1 - PRODUCT over c in Ci of p[c]), to the rounding of the floats, and
\* the same value is what _evaluate_reliability subtracts from 1: for the
\* failure probabilities p, and for the reliabilities r with p = 1 - r.
C28_IndependentCutSets ==
    Unreliability
        => /\ Close(ret.value,
                    independent_unreliability(ret.cut_sets, ret.component_probs))
           /\ \A orders \in OrderChoices(ret.cut_sets) :
                  /\ evaluate_unreliability(ret.cut_sets, ret.component_probs, orders)
                         = ret.value
                  /\ _evaluate_reliability(ret.cut_sets, ret.component_probs, orders)
                         = FSub(F10,
                                calculate_system_unreliability(
                                    ret.cut_sets,
                                    [c \in DOMAIN ret.component_probs |->
                                        FSub(F10, ret.component_probs[c])],
                                    orders).value)

\* the cut sets {A} and {A,B}, both probabilities 0.5: 1 - 0.5 * 0.75 = 0.625
C28_Witness ==
    /\ Unreliability
    /\ ret.cut_sets = << {"A"}, {"A", "B"} >>
    /\ ret.component_probs = [A |-> F05, B |-> F05]
    /\ ret.value = [s |-> 0, m |-> <<5>>, e |-> -3]

\* the component is a member of none of the cut sets given
InNoCutSet(c) == \A i \in DOMAIN ret.cut_sets : c \notin ret.cut_sets[i]

\* C29: in the map birnbaum_importance or criticality_importance returns,
\* every component of the system has an entry, and a component that is in
\* none of the cut sets given has the value 0.0 exactly.
C29_OutsideCutSetsZero ==
    (Importance /\ ret.raised = "None")
        => /\ DOMAIN ret.value = DOMAIN components
           /\ \A c \in DOMAIN components : InNoCutSet(c) => ret.value[c] = F00

\* C1 in a cut set with a value above 0, C2 in none with the value 0.0
C29_Witness ==
    /\ Importance
    /\ ret.raised = "None"
    /\ DOMAIN components = {"C1", "C2"}
    /\ ret.cut_sets = << {"C1"} >>
    /\ ret.value["C1"] # F00
    /\ ret.value["C2"] = F00

\* no set occurs twice in the list
NoRepeat(list) == \A i, j \in DOMAIN list : i # j => list[i] # list[j]

\* C30: in every result of run_comparison each count is the length of its
\* list, neither list holds a cut set twice, and match = true implies that
\* the two counts are equal.
C30_CountsAgree ==
    op = "run_comparison"
        => /\ ret.mocus.count = Len(ret.mocus.cut_sets)
           /\ ret.bdd.count = Len(ret.bdd.cut_sets)
           /\ NoRepeat(ret.mocus.cut_sets)
           /\ NoRepeat(ret.bdd.cut_sets)
           /\ ret.match = TRUE => ret.mocus.count = ret.bdd.count

\* A and B in parallel with the connection A->B: the cross product of the
\* three paths forms {A,B} twice, and both engines return it once
C30_Witness ==
    /\ op = "run_comparison"
    /\ AllRatesPositive
    /\ EdgeSet(edges) = {<<source, "A">>, <<"A", sink>>, <<source, "B">>,
                         <<"B", sink>>, <<"A", "B">>}
    /\ ret.match = TRUE
    /\ ret.mocus.cut_sets = << {"A", "B"} >>
    /\ ret.bdd.count = 1
====
